---------------------------- MODULE Spec2Model ----------------------------
(***************************************************************************)
(* Model of the level runtime of "Portais do Improviso":                   *)
(*   - the level store   (game/levels/loadLevel.ts, game/levels/schema.ts) *)
(*   - the progress store (game/GameState.ts, class GameStateManager)      *)
(*   - the event bus      (game/events.ts)                                 *)
(*   - the main scene     (game/scenes/MainScene.ts)                       *)
(***************************************************************************)
EXTENDS Integers, Sequences, FiniteSets, TLC

VARIABLES
    levelCache,     \* loadLevel.ts: const levelCache = new Map<string, LevelData>()
    loads,          \* the loadLevel() calls made so far, one record per promise
    resolved,       \* history: per id, the object a load resolved with since the last clear
    state,          \* GameState.ts: GameStateManager.state
    storage,        \* localStorage item 'portais-do-improviso:progress' (Null when absent)
    hist,           \* history: per id, what the completeLevel calls passed since the last reset
    lastOp,         \* history: the last operation of the progress store
    nOps,           \* history: how many mutations callers made on the progress store
    listeners,      \* GameState.ts: GameStateManager.listeners, in insertion order
    notified,       \* history: the listener calls of the last store operation
    thrown,         \* history: the error the last store operation threw at its caller
    lastArgs,       \* history: what the last call of a subscriber's session passed
    busEvents,      \* events.ts: EventBus.events, per key its callbacks in insertion order
    busCalls,       \* history: the callback calls of the last operation of the bus
    busRegs,        \* history: per key and callback, its on() calls since it was last removed
    busOp,          \* history: the last operation of the bus
    nBusOps,        \* history: how many calls callers made on the bus
    screen,         \* App.tsx: gameState_, 'menu' or 'playing'
    createPc,       \* where MainScene.create() of the running game is
    loadCall,       \* the loadLevel() call that create() awaits (0 when none)
    stage,          \* what the game loop runs next: the world step or scene.update()
    now,            \* scene.time.now
    loopDelta,      \* game.loop.delta
    sceneLevelId,   \* MainScene.levelId
    currentLevelData, \* MainScene.currentLevelData
    coinCount,      \* MainScene.coinCount
    canJump,        \* MainScene.canJump
    deaths,         \* MainScene.deaths
    startTime,      \* MainScene.startTime
    windZones,      \* MainScene.windZones, in insertion order
    hintText,       \* MainScene.hintText: its text and visibility
    player,         \* MainScene.player: the sprite and its Arcade body
    coins,          \* MainScene.coins: one sprite per collectible
    physicsPaused,  \* scene.physics.world.isPaused
    contacts,       \* the overlaps of the current world step whose callbacks are still to run
    events,         \* history: per event key, the emissions of this session
    session,        \* history: how many sessions were started
    tick,           \* history: the jumps of the last update() and of the current hold
    orphans         \* the create() calls of destroyed games that still await their load

levelVars == <<levelCache, loads, resolved>>

storeVars == <<state, storage, hist, lastOp, nOps, listeners, notified, thrown, lastArgs>>

busVars == <<busEvents, busCalls, busRegs, busOp, nBusOps>>

loopVars == <<screen, createPc, loadCall, stage, now, loopDelta>>

sceneVars == <<sceneLevelId, currentLevelData, coinCount, canJump, deaths, startTime,
               windZones, hintText, player, coins, physicsPaused, contacts>>

ghostVars == <<events, session, tick>>

gameVars == <<loopVars, sceneVars, ghostVars>>

vars == <<levelVars, storeVars, gameVars, busVars, orphans>>

(***************************************************************************)
(* JavaScript values.  A value of a JSON document is tagged with what      *)
(* `typeof` and Array.isArray report for it.                               *)
(***************************************************************************)
Undefined == [t |-> "undefined"]

Null == [t |-> "null"]

Num(n) == [t |-> "number", v |-> n]

Str(s) == [t |-> "string", v |-> s]

Obj(r) == [t |-> "object", v |-> r]

Arr(s) == [t |-> "array", v |-> s]

TypeOf(x) == IF x.t \in {"null", "array"} THEN "object" ELSE x.t

IsArray(x) == x.t = "array"

\* `!obj || typeof obj !== 'object'` of the schema predicates, negated
IsObjectLike(x) == x.t \in {"object", "array"}

\* obj.k of a JS object: undefined when the key is absent
Field(x, k) == IF x.t = "object" /\ k \in DOMAIN x.v THEN x.v[k] ELSE Undefined

\* new Map()
EmptyMap == [k \in {} |-> Undefined]

\* a JS value in a condition
Truthy(x) ==
    CASE x.t = "number" -> x.v # 0
      [] x.t = "string" -> x.v # ""
      [] x.t = "boolean" -> x.v
      [] x.t \in {"undefined", "null"} -> FALSE
      [] OTHER -> TRUE

\* the elements of an array, for Array.prototype.every
Elems(arr) == {arr.v[i] : i \in 1..Len(arr.v)}


(***************************************************************************)
(* schema.ts: the structural predicates of validateLevelData.              *)
(***************************************************************************)
isVector2(obj) ==
    /\ IsObjectLike(obj)
    /\ TypeOf(Field(obj, "x")) = "number"
    /\ TypeOf(Field(obj, "y")) = "number"

isGoal(obj) ==
    /\ IsObjectLike(obj)
    /\ TypeOf(Field(obj, "x")) = "number"
    /\ TypeOf(Field(obj, "y")) = "number"
    /\ TypeOf(Field(obj, "radius")) = "number"

isPlatform(obj) ==
    /\ IsObjectLike(obj)
    /\ TypeOf(Field(obj, "x")) = "number"
    /\ TypeOf(Field(obj, "y")) = "number"
    /\ TypeOf(Field(obj, "width")) = "number"
    /\ TypeOf(Field(obj, "height")) = "number"

isHazard(obj) ==
    /\ IsObjectLike(obj)
    /\ Field(obj, "type") \in {Str("spikes"), Str("lava"), Str("void")}
    /\ TypeOf(Field(obj, "x")) = "number"
    /\ TypeOf(Field(obj, "y")) = "number"
    /\ TypeOf(Field(obj, "width")) = "number"
    /\ TypeOf(Field(obj, "height")) = "number"

isCollectible(obj) ==
    /\ IsObjectLike(obj)
    /\ TypeOf(Field(obj, "x")) = "number"
    /\ TypeOf(Field(obj, "y")) = "number"
    /\ TypeOf(Field(obj, "id")) = "string"

\* faulty variant: pulseDuration is required of every zone
isWindZone_PulseAlways(obj) ==
    /\ IsObjectLike(obj)
    /\ TypeOf(Field(obj, "x")) = "number"
    /\ TypeOf(Field(obj, "y")) = "number"
    /\ TypeOf(Field(obj, "width")) = "number"
    /\ TypeOf(Field(obj, "height")) = "number"
    /\ TypeOf(Field(obj, "forceX")) = "number"
    /\ TypeOf(Field(obj, "forceY")) = "number"
    /\ Field(obj, "type") \in {Str("constant"), Str("pulsed")}
    /\ TypeOf(Field(obj, "pulseDuration")) = "number"

isWindZone(obj) ==
    /\ IsObjectLike(obj)
    /\ LET isValid ==
            /\ TypeOf(Field(obj, "x")) = "number"
            /\ TypeOf(Field(obj, "y")) = "number"
            /\ TypeOf(Field(obj, "width")) = "number"
            /\ TypeOf(Field(obj, "height")) = "number"
            /\ TypeOf(Field(obj, "forceX")) = "number"
            /\ TypeOf(Field(obj, "forceY")) = "number"
            /\ Field(obj, "type") \in {Str("constant"), Str("pulsed")}
       IN  /\ isValid
           /\ ~(Field(obj, "type") = Str("pulsed")
                  /\ TypeOf(Field(obj, "pulseDuration")) # "number")

isMovingPlatform(obj) ==
    /\ IsObjectLike(obj)
    /\ TypeOf(Field(obj, "x")) = "number"
    /\ TypeOf(Field(obj, "y")) = "number"
    /\ TypeOf(Field(obj, "width")) = "number"
    /\ TypeOf(Field(obj, "height")) = "number"
    /\ TypeOf(Field(obj, "targetX")) = "number"
    /\ TypeOf(Field(obj, "targetY")) = "number"
    /\ TypeOf(Field(obj, "speed")) = "number"

isCheckpoint(obj) ==
    /\ IsObjectLike(obj)
    /\ TypeOf(Field(obj, "x")) = "number"
    /\ TypeOf(Field(obj, "y")) = "number"
    /\ TypeOf(Field(obj, "radius")) = "number"

isString(h) == TypeOf(h) = "string"

validateLevelData(data) ==
    /\ IsObjectLike(data)
    /\ TypeOf(Field(data, "id")) = "string"
    /\ TypeOf(Field(data, "name")) = "string"
    /\ TypeOf(Field(data, "description")) = "string"
    /\ TypeOf(Field(data, "difficulty")) = "number"
    /\ TypeOf(Field(data, "timeGoalSeconds")) = "number"
    /\ isVector2(Field(data, "playerSpawn"))
    /\ isGoal(Field(data, "goal"))
    /\ IsArray(Field(data, "platforms"))
    /\ IsArray(Field(data, "hazards"))
    /\ IsArray(Field(data, "collectibles"))
    /\ IsArray(Field(data, "windZones"))
    /\ IsArray(Field(data, "movingPlatforms"))
    /\ IsArray(Field(data, "checkpoints"))
    /\ IsArray(Field(data, "hints"))
    /\ \A e \in Elems(Field(data, "platforms")) : isPlatform(e)
    /\ \A e \in Elems(Field(data, "hazards")) : isHazard(e)
    /\ \A e \in Elems(Field(data, "collectibles")) : isCollectible(e)
    /\ \A e \in Elems(Field(data, "windZones")) : isWindZone(e)
    /\ \A e \in Elems(Field(data, "movingPlatforms")) : isMovingPlatform(e)
    /\ \A e \in Elems(Field(data, "checkpoints")) : isCheckpoint(e)
    /\ \A e \in Elems(Field(data, "hints")) : isString(e)

(***************************************************************************)
(* The level documents ./wind/<id>.json that the loader can import.        *)
(* Lengths are in cells of the player's size: row 1 is the row of a player *)
(* standing on the platform of row 2, row 0 is the row above it.           *)
(***************************************************************************)
Vec(x, y) == Obj([x |-> Num(x), y |-> Num(y)])

Rect(x, y, w, h) == Obj([x |-> Num(x), y |-> Num(y), width |-> Num(w), height |-> Num(h)])

Spikes(x, y) ==
    Obj([type |-> Str("spikes"), x |-> Num(x), y |-> Num(y), width |-> Num(1), height |-> Num(1)])

Coin(id, x, y) == Obj([id |-> Str(id), x |-> Num(x), y |-> Num(y)])

ConstantZone(x, y, w, h, fx, fy) ==
    Obj([x |-> Num(x), y |-> Num(y), width |-> Num(w), height |-> Num(h),
         forceX |-> Num(fx), forceY |-> Num(fy), type |-> Str("constant")])

PulsedZone(x, y, w, h, fx, fy, p) ==
    Obj([x |-> Num(x), y |-> Num(y), width |-> Num(w), height |-> Num(h),
         forceX |-> Num(fx), forceY |-> Num(fy), type |-> Str("pulsed"),
         pulseDuration |-> p])

LevelDoc(id, name, spawn, goal, hazards, collectibles, zones, hints) ==
    Obj([id |-> Str(id), name |-> Str(name), description |-> Str("..."),
         difficulty |-> Num(1), timeGoalSeconds |-> Num(60),
         playerSpawn |-> spawn, goal |-> goal,
         platforms |-> Arr(<<Rect(2, 2, 5, 1)>>),
         hazards |-> Arr(hazards), collectibles |-> Arr(collectibles),
         windZones |-> Arr(zones), movingPlatforms |-> Arr(<<>>),
         checkpoints |-> Arr(<<>>), hints |-> Arr(hints)])

GoalAt(x, y) == Obj([x |-> Num(x), y |-> Num(y), radius |-> Num(16)])

\* spikes with a coin above them, a coin on the ground, then the goal; two hints
DocWind01 ==
    LevelDoc("wind_01", "Brisa Suave", Vec(0, 1), GoalAt(3, 1),
             <<Spikes(1, 1)>>, <<Coin("c1", 1, 0), Coin("c2", 2, 1)>>,
             <<>>, <<Str("h0"), Str("h1")>>)

\* the goal next to the spawn point; behind it a constant zone over the
\* columns 1..3 and a pulsed zone over the columns 2..4, and spikes
DocWind02 ==
    LevelDoc("wind_02", "Vento Crescente", Vec(0, 1), GoalAt(1, 1),
             <<Spikes(3, 1)>>, <<>>,
             <<ConstantZone(2, 1, 2, 2, 50, 0), PulsedZone(3, 1, 2, 2, 0, -20, Num(200))>>,
             <<>>)

\* a pulsed zone without its pulseDuration
DocWind03 ==
    LevelDoc("wind_03", "Redemoinhos", Vec(0, 1), GoalAt(3, 1),
             <<>>, <<>>, <<PulsedZone(2, 1, 2, 2, 0, -20, Undefined)>>, <<>>)

\* a constant zone over column 1, then one over column 2, then a pulsed zone
\* over the columns 2..4; the second hint is the empty string
DocWind04 ==
    LevelDoc("wind_04", "Tempestade", Vec(0, 1), GoalAt(3, 0),
             <<>>, <<>>,
             <<ConstantZone(1, 1, 1, 2, 50, 0), ConstantZone(2, 1, 1, 2, 30, 0),
               PulsedZone(3, 1, 2, 2, 0, -20, Num(200))>>,
             <<Str("a"), Str("")>>)

\* a wind zone with the given type and pulseDuration (Undefined: none)
Zone(x, type, p) ==
    Obj([x |-> Num(x), y |-> Num(1), width |-> Num(1), height |-> Num(2),
         forceX |-> Num(10), forceY |-> Num(0), type |-> type,
         pulseDuration |-> p])

\* constant zones with a numeric pulseDuration, with a text as pulseDuration
\* and without pulseDuration, and a pulsed zone with its pulseDuration
DocWind05 ==
    LevelDoc("wind_05", "Corrente", Vec(0, 1), GoalAt(3, 1), <<>>, <<>>,
             <<Zone(1, Str("constant"), Num(200)), Zone(2, Str("constant"), Str("x")),
               ConstantZone(3, 1, 1, 2, 10, 0), PulsedZone(4, 1, 1, 2, 0, -20, Num(200))>>,
             <<>>)

\* a valid zone followed by a zone of a type that is neither constant nor pulsed
DocWind06 ==
    LevelDoc("wind_06", "Rajada", Vec(0, 1), GoalAt(3, 1), <<>>, <<>>,
             <<ConstantZone(1, 1, 1, 2, 10, 0), Zone(2, Str("gust"), Num(200))>>,
             <<>>)

\* a valid zone followed by a pulsed zone whose pulseDuration is a text
DocWind07 ==
    LevelDoc("wind_07", "Pulso", Vec(0, 1), GoalAt(3, 1), <<>>, <<>>,
             <<ConstantZone(1, 1, 1, 2, 10, 0), Zone(2, Str("pulsed"), Str("200"))>>,
             <<>>)

\* a zone without a type
DocWind08 ==
    LevelDoc("wind_08", "Calmaria", Vec(0, 1), GoalAt(3, 1), <<>>, <<>>,
             <<Zone(1, Undefined, Num(200))>>, <<>>)

\* two collectibles with the same id
DocWind09 ==
    LevelDoc("wind_09", "Moedas", Vec(0, 1), GoalAt(3, 1), <<>>,
             <<Coin("c1", 1, 1), Coin("c1", 2, 1)>>, <<>>, <<>>)

\* the geometry of wind_01 under a pulsed zone with pulseDuration 0 over the
\* columns 0..2
DocWind10 ==
    LevelDoc("wind_10", "Calmaria", Vec(0, 1), GoalAt(3, 1),
             <<Spikes(1, 1)>>, <<Coin("c1", 1, 0), Coin("c2", 2, 1)>>,
             <<PulsedZone(1, 1, 2, 2, 0, -20, Num(0))>>, <<>>)

LevelFiles ==
    [id \in {"wind_01", "wind_02", "wind_03", "wind_04", "wind_05", "wind_06",
             "wind_07", "wind_08", "wind_09", "wind_10"} |->
        CASE id = "wind_01" -> DocWind01
          [] id = "wind_02" -> DocWind02
          [] id = "wind_03" -> DocWind03
          [] id = "wind_04" -> DocWind04
          [] id = "wind_05" -> DocWind05
          [] id = "wind_06" -> DocWind06
          [] id = "wind_07" -> DocWind07
          [] id = "wind_08" -> DocWind08
          [] id = "wind_09" -> DocWind09
          [] id = "wind_10" -> DocWind10]

\* the ids the menu and the callers ask for; "wind_99" has no file
LevelIds == {"wind_01", "wind_02", "wind_03", "wind_99"}

\* what the menu passes to handleLevelSelected: one of the ids, or no id
MenuIds == LevelIds \cup {""}

\* the ids a load can be asked for
KnownIds == LevelIds \cup DOMAIN LevelFiles

(***************************************************************************)
(* Object references.  import() of one module always yields the same       *)
(* module object, so the default export of ./wind/<id>.json is one object. *)
(***************************************************************************)
ModuleDefault(id) == [src |-> id, clone |-> FALSE]

Deref(ref) == LevelFiles[ref.src]

(***************************************************************************)
(* loadLevel.ts.  A call of the async function loadLevel runs to its       *)
(* `await import(...)` and suspends; the rest runs when the import settles.*)
(***************************************************************************)
MaxLoads == 3

\* new Error(`Could not load level ${levelId}`)
CouldNotLoad(levelId) == <<"Could not load level", levelId>>

NoError == <<>>

\* the promise of a call that found levelId in the cache (lines 21-23)
LoadLevelHit(cache, levelId) ==
    [id |-> levelId, status |-> "resolved", value |-> cache[levelId],
     error |-> NoError, fetch |-> "none", validated |-> FALSE]

\* the promise of a call that starts the import (lines 25-27)
LoadLevelMiss(levelId) ==
    [id |-> levelId, status |-> "pending", value |-> Undefined,
     error |-> NoError, fetch |-> "pending", validated |-> FALSE]

RejectedCall(levelId, fetch) ==
    [id |-> levelId, status |-> "rejected", value |-> Undefined,
     error |-> CouldNotLoad(levelId), fetch |-> fetch, validated |-> fetch = "ok"]

ResolvedCall(levelId, levelData) ==
    [id |-> levelId, status |-> "resolved", value |-> levelData,
     error |-> NoError, fetch |-> "ok", validated |-> TRUE]

MapSet(map, k, val) == [j \in DOMAIN map \cup {k} |-> IF j = k THEN val ELSE map[j]]

\* faulty variant: the validated level is returned but never stored
LoadLevelSettled_NoStore(cache, levelId, imported) ==
    IF ~imported
    THEN [cache |-> cache, call |-> RejectedCall(levelId, "failed")]
    ELSE IF ~validateLevelData(Deref(ModuleDefault(levelId)))
         THEN [cache |-> cache, call |-> RejectedCall(levelId, "ok")]
         ELSE [cache |-> cache, call |-> ResolvedCall(levelId, ModuleDefault(levelId))]

\* faulty variant: the document is stored before it is validated
LoadLevelSettled_StoreFirst(cache, levelId, imported) ==
    IF ~imported
    THEN [cache |-> cache, call |-> RejectedCall(levelId, "failed")]
    ELSE IF ~validateLevelData(Deref(ModuleDefault(levelId)))
         THEN [cache |-> MapSet(cache, levelId, ModuleDefault(levelId)),
               call |-> RejectedCall(levelId, "ok")]
         ELSE [cache |-> MapSet(cache, levelId, ModuleDefault(levelId)),
               call |-> ResolvedCall(levelId, ModuleDefault(levelId))]

\* whether the continuation validates, and what it leaves (lines 28-42):
\* the promise and the cache after the import settled
LoadLevelSettled(cache, levelId, imported) ==
    IF ~imported
    THEN [cache |-> cache, call |-> RejectedCall(levelId, "failed")]
    ELSE LET levelData == ModuleDefault(levelId) IN
         IF ~validateLevelData(Deref(levelData))
         THEN [cache |-> cache, call |-> RejectedCall(levelId, "ok")]
         ELSE [cache |-> MapSet(cache, levelId, levelData),
               call |-> ResolvedCall(levelId, levelData)]

\* history kept with each call: what an earlier load of the id had resolved
\* with when the call was made (Undefined when none had since the last clear)
WithHistory(call, res) == call @@ [after |-> res[call.id]]

\* loadLevel up to its await (lines 19-27), as it acts on the level store
loadLevelCall(levelId) ==
    /\ Len(loads) < MaxLoads
    /\ LET call == IF levelId \in DOMAIN levelCache
                   THEN LoadLevelHit(levelCache, levelId)
                   ELSE LoadLevelMiss(levelId)
       IN  /\ loads' = Append(loads, WithHistory(call, resolved))
           /\ resolved' = IF call.status = "resolved"
                          THEN [resolved EXCEPT ![levelId] = call.value]
                          ELSE resolved
    /\ UNCHANGED levelCache

loadLevel(levelId) ==
    /\ loadLevelCall(levelId)
    /\ UNCHANGED storeVars
    /\ UNCHANGED gameVars
    /\ UNCHANGED <<busVars, orphans>>

\* the import of call c settles: the module is fetched (fetchOk and the file
\* exists) or the import throws
loadLevelResume(c, fetchOk) ==
    /\ loads[c].status = "pending"
    /\ LET levelId == loads[c].id
           r == LoadLevelSettled(levelCache, levelId,
                                 fetchOk /\ levelId \in DOMAIN LevelFiles)
       IN  /\ levelCache' = r.cache
           /\ loads' = [loads EXCEPT ![c] = r.call @@ [after |-> loads[c].after]]
           /\ resolved' = IF r.call.status = "resolved"
                          THEN [resolved EXCEPT ![levelId] = r.call.value]
                          ELSE resolved
    /\ UNCHANGED storeVars
    /\ UNCHANGED gameVars
    /\ UNCHANGED <<busVars, orphans>>

clearLevelCache ==
    /\ levelCache' = EmptyMap
    /\ resolved' = [id \in KnownIds |-> Undefined]
    /\ UNCHANGED loads
    /\ UNCHANGED storeVars
    /\ UNCHANGED gameVars
    /\ UNCHANGED <<busVars, orphans>>

getCachedLevel(levelId) ==
    IF levelId \in DOMAIN levelCache THEN levelCache[levelId] ELSE Undefined

InitLevels ==
    /\ levelCache = EmptyMap
    /\ loads = <<>>
    /\ resolved = [id \in KnownIds |-> Undefined]

(***************************************************************************)
(* GameState.ts: the progress store.  levelProgress is a Map, kept here as *)
(* the sequence of its entries in insertion order.                         *)
(***************************************************************************)
MaxTimeMs == 1

MaxPicked == 1

MaxDeaths == 1

MaxOps == 3

NoLevel == "null"

OMapHas(m, k) == \E i \in 1..Len(m) : m[i].key = k

OMapGet(m, k) == m[CHOOSE i \in 1..Len(m) : m[i].key = k].value

\* Map.prototype.set: an existing key keeps its place
OMapSet(m, k, val) ==
    IF OMapHas(m, k)
    THEN [i \in 1..Len(m) |-> IF m[i].key = k THEN [key |-> k, value |-> val] ELSE m[i]]
    ELSE Append(m, [key |-> k, value |-> val])

DefaultProgress(levelId) ==
    [levelId |-> levelId, completed |-> FALSE, bestTimeMs |-> Null,
     bestCollectibles |-> 0, totalDeaths |-> 0]

\* this.state.levelProgress.get(levelId) || { ...defaults }
CurrentProgress(st, levelId) ==
    IF OMapHas(st.levelProgress, levelId)
    THEN OMapGet(st.levelProgress, levelId)
    ELSE DefaultProgress(levelId)

MathMin(a, b) == IF a < b THEN a ELSE b

MathMax(a, b) == IF a > b THEN a ELSE b

\* { ...current, ...progress }
Spread(current, progress) ==
    [f \in DOMAIN current \cup DOMAIN progress |->
        IF f \in DOMAIN progress THEN progress[f] ELSE current[f]]

(* JSON.stringify / JSON.parse of the persisted payload *)
Bool(b) == [t |-> "boolean", v |-> b]

ProgressToJson(rec) ==
    Obj([levelId |-> Str(rec.levelId), completed |-> Bool(rec.completed),
         bestTimeMs |-> rec.bestTimeMs,
         bestCollectibles |-> Num(rec.bestCollectibles),
         totalDeaths |-> Num(rec.totalDeaths)])

ProgressFromJson(obj) ==
    [levelId |-> Field(obj, "levelId").v, completed |-> Field(obj, "completed").v,
     bestTimeMs |-> Field(obj, "bestTimeMs"),
     bestCollectibles |-> Field(obj, "bestCollectibles").v,
     totalDeaths |-> Field(obj, "totalDeaths").v]

\* faulty variant: the Map itself is serialised, which JSON.stringify writes
\* as an object without entries
Stringify_MapItself(st) ==
    Str(Obj([levelProgress |-> Obj(EmptyMap),
             totalCoinsCollected |-> Num(st.totalCoinsCollected),
             totalDeaths |-> Num(st.totalDeaths)]))

\* JSON.stringify({ levelProgress: Array.from(entries()), totalCoinsCollected, totalDeaths })
Stringify(st) ==
    Str(Obj([levelProgress |->
                Arr([i \in 1..Len(st.levelProgress) |->
                        Arr(<<Str(st.levelProgress[i].key),
                              ProgressToJson(st.levelProgress[i].value)>>)]),
             totalCoinsCollected |-> Num(st.totalCoinsCollected),
             totalDeaths |-> Num(st.totalDeaths)]))

\* An item is kept as the value its text parses to.  A text that JSON.parse
\* cannot read parses to no value; it also stands for the empty text, which
\* `if (stored)` skips.
Unparsable == Str(Undefined)

JsonParse(text) == text.v

\* x || d
OrElse(x, d) == IF Truthy(x) THEN x ELSE d

InitialState ==
    [selectedLevelId |-> NoLevel, levelProgress |-> <<>>,
     totalCoinsCollected |-> 0, totalDeaths |-> 0]

\* new Map(src) throws unless src is iterable and each of its elements is an
\* object; of JSON values only arrays of arrays or objects pass
NewMapThrows(src) ==
    ~(/\ src.t = "array"
      /\ \A i \in 1..Len(src.v) : IsObjectLike(src.v[i]))

\* entry[0] and entry[1] of an element of the iterable
EntryPart(entry, n) ==
    IF entry.t = "array"
    THEN IF n <= Len(entry.v) THEN entry.v[n] ELSE Undefined
    ELSE Field(entry, IF n = 1 THEN "0" ELSE "1")

\* new Map(entries): the entries are set one after the other, from entry i on
RECURSIVE MapFrom(_, _, _)
MapFrom(i, entries, m) ==
    IF i > Len(entries)
    THEN m
    ELSE MapFrom(i + 1, entries,
                 OMapSet(m, EntryPart(entries[i], 1), EntryPart(entries[i], 2)))

\* what loadFromStorage leaves in levelProgress, totalCoinsCollected and
\* totalDeaths, as JS values: what the constructor found for a missing or
\* unreadable item or when a statement of the try block threw
EmptyPayload ==
    [levelProgress |-> <<>>, totalCoinsCollected |-> Num(0), totalDeaths |-> Num(0)]

\* data.totalCoinsCollected || 0, data.totalDeaths || 0
LoadedTotal(x) == OrElse(x, Num(0))

\* loadFromStorage, lines 84-94
LoadPayload(stored) ==
    IF stored = Null \/ stored = Unparsable
    THEN EmptyPayload
    ELSE LET data == JsonParse(stored) IN
         IF data.t = "null"
         THEN EmptyPayload
         ELSE LET src == OrElse(Field(data, "levelProgress"), Arr(<<>>)) IN
              IF NewMapThrows(src)
              THEN EmptyPayload
              ELSE [levelProgress |-> MapFrom(1, src.v, <<>>),
                    totalCoinsCollected |-> LoadedTotal(Field(data, "totalCoinsCollected")),
                    totalDeaths |-> LoadedTotal(Field(data, "totalDeaths"))]

\* a record as saveToStorage writes it
IsProgressJson(x) ==
    /\ x.t = "object"
    /\ DOMAIN x.v = {"levelId", "completed", "bestTimeMs", "bestCollectibles", "totalDeaths"}
    /\ x.v.levelId.t = "string"
    /\ x.v.completed.t = "boolean"
    /\ x.v.bestTimeMs.t \in {"number", "null"}
    /\ x.v.bestCollectibles.t = "number"
    /\ x.v.totalDeaths.t = "number"

\* the state with the loaded values: numbers, string keys and records are
\* kept as the store operations keep them, any other value as the JS value
StateOf(loaded) ==
    [selectedLevelId |-> NoLevel,
     levelProgress |->
         [i \in 1..Len(loaded.levelProgress) |->
             LET e == loaded.levelProgress[i] IN
             [key |-> IF e.key.t = "string" THEN e.key.v ELSE e.key,
              value |-> IF IsProgressJson(e.value) THEN ProgressFromJson(e.value)
                        ELSE e.value]],
     totalCoinsCollected |->
         IF loaded.totalCoinsCollected.t = "number"
         THEN loaded.totalCoinsCollected.v ELSE loaded.totalCoinsCollected,
     totalDeaths |->
         IF loaded.totalDeaths.t = "number"
         THEN loaded.totalDeaths.v ELSE loaded.totalDeaths]

\* constructor -> loadFromStorage
loadFromStorage(stored) == StateOf(LoadPayload(stored))

\* faulty variant: no try/catch around setItem
saveToStorage_NoCatch(st, stored, saveOk) ==
    IF saveOk
    THEN [storage |-> Stringify(st), error |-> NoError]
    ELSE [storage |-> stored, error |-> <<"QuotaExceededError">>]

\* saveToStorage: setItem may throw (quota, private mode); the error is
\* caught and logged.  Yields the item it leaves and the error it throws.
saveToStorage(st, stored, saveOk) ==
    IF saveOk
    THEN [storage |-> Stringify(st), error |-> NoError]
    ELSE [storage |-> stored, error |-> NoError]

\* Set.prototype.add and delete on a Set kept in insertion order
SetAdd(set, x) == IF \E i \in 1..Len(set) : set[i] = x THEN set ELSE Append(set, x)

SetDelete(set, x) == LET Keep(e) == e # x IN SelectSeq(set, Keep)

\* faulty variant: the listeners get the state as it was before the mutation
notifyListeners_Stale(ls, st) ==
    [i \in 1..Len(ls) |-> [listener |-> ls[i], state |-> state]]

\* notifyListeners: the calls it makes, in order
notifyListeners(ls, st) ==
    [i \in 1..Len(ls) |-> [listener |-> ls[i], state |-> st]]

\* faulty variant: "never completed" tested with !current.bestTimeMs, which
\* also holds for a best time of 0
CompleteLevelState_FalsyBest(st, levelId, data) ==
    LET current == CurrentProgress(st, levelId)
        updated == [levelId |-> levelId, completed |-> TRUE,
                    bestTimeMs |->
                        IF current.bestTimeMs = Null \/ current.bestTimeMs.v = 0
                        THEN Num(data.timeMs)
                        ELSE Num(MathMin(current.bestTimeMs.v, data.timeMs)),
                    bestCollectibles |-> MathMax(current.bestCollectibles, data.picked),
                    totalDeaths |-> current.totalDeaths + data.deaths]
    IN  [st EXCEPT !.levelProgress = OMapSet(@, levelId, updated),
                   !.totalCoinsCollected = @ + data.picked,
                   !.totalDeaths = @ + data.deaths]

\* faulty variant: the record keeps the worst run's deaths instead of the sum
CompleteLevelState_BestOfDeaths(st, levelId, data) ==
    LET current == CurrentProgress(st, levelId)
        updated == [levelId |-> levelId, completed |-> TRUE,
                    bestTimeMs |->
                        IF current.bestTimeMs = Null
                        THEN Num(data.timeMs)
                        ELSE Num(MathMin(current.bestTimeMs.v, data.timeMs)),
                    bestCollectibles |-> MathMax(current.bestCollectibles, data.picked),
                    totalDeaths |-> MathMax(current.totalDeaths, data.deaths)]
    IN  [st EXCEPT !.levelProgress = OMapSet(@, levelId, updated),
                   !.totalCoinsCollected = @ + data.picked,
                   !.totalDeaths = @ + data.deaths]

\* faulty variant: the aggregate counts a coin only when the best count rises
CompleteLevelState_CountBest(st, levelId, data) ==
    LET current == CurrentProgress(st, levelId)
        updated == [levelId |-> levelId, completed |-> TRUE,
                    bestTimeMs |->
                        IF current.bestTimeMs = Null
                        THEN Num(data.timeMs)
                        ELSE Num(MathMin(current.bestTimeMs.v, data.timeMs)),
                    bestCollectibles |-> MathMax(current.bestCollectibles, data.picked),
                    totalDeaths |-> current.totalDeaths + data.deaths]
    IN  [st EXCEPT !.levelProgress = OMapSet(@, levelId, updated),
                   !.totalCoinsCollected =
                       @ + updated.bestCollectibles - current.bestCollectibles,
                   !.totalDeaths = @ + data.deaths]

\* completeLevel, lines 150-171: the state it leaves
CompleteLevelState(st, levelId, data) ==
    LET current == CurrentProgress(st, levelId)
        updated == [levelId |-> levelId, completed |-> TRUE,
                    bestTimeMs |->
                        IF current.bestTimeMs = Null
                        THEN Num(data.timeMs)
                        ELSE Num(MathMin(current.bestTimeMs.v, data.timeMs)),
                    bestCollectibles |-> MathMax(current.bestCollectibles, data.picked),
                    totalDeaths |-> current.totalDeaths + data.deaths]
    IN  [st EXCEPT !.levelProgress = OMapSet(@, levelId, updated),
                   !.totalCoinsCollected = @ + data.picked,
                   !.totalDeaths = @ + data.deaths]

\* faulty variant: the supplied fields are merged into the defaulted record
UpdateLevelProgressState_FromDefault(st, levelId, progress) ==
    LET updated == Spread(DefaultProgress(levelId), progress)
    IN  [st EXCEPT !.levelProgress = OMapSet(@, levelId, updated)]

\* updateLevelProgress, lines 132-141: the state it leaves
UpdateLevelProgressState(st, levelId, progress) ==
    LET current == CurrentProgress(st, levelId)
        updated == Spread(current, progress)
    IN  [st EXCEPT !.levelProgress = OMapSet(@, levelId, updated)]

\* faulty variant: the records are cleared but the aggregate totals are kept
ResetState_KeepTotals(st) ==
    [st EXCEPT !.levelProgress = <<>>, !.selectedLevelId = NoLevel]

\* resetProgress, lines 246-249: the state it leaves
ResetState(st) ==
    [st EXCEPT !.levelProgress = <<>>,
               !.totalCoinsCollected = 0,
               !.totalDeaths = 0,
               !.selectedLevelId = NoLevel]

(* history of the completeLevel calls of one id *)
NoHistory == [n |-> 0, minTime |-> 0, maxPicked |-> 0, sumPicked |-> 0,
              sumDeaths |-> 0, lastWorse |-> FALSE]

Record(h, data) ==
    [n |-> h.n + 1,
     minTime |-> IF h.n = 0 \/ data.timeMs < h.minTime THEN data.timeMs ELSE h.minTime,
     maxPicked |-> IF h.n = 0 \/ data.picked > h.maxPicked THEN data.picked ELSE h.maxPicked,
     sumPicked |-> h.sumPicked + data.picked,
     sumDeaths |-> h.sumDeaths + data.deaths,
     lastWorse |-> h.n > 0 /\ data.timeMs > h.minTime /\ data.picked < h.maxPicked]

NoArgs == [none |-> TRUE]

(* the operations, as they act on the store *)
setSelectedLevel(levelId) ==
    /\ state' = [state EXCEPT !.selectedLevelId = levelId]
    /\ notified' = notifyListeners(listeners, state')
    /\ thrown' = NoError
    /\ lastOp' = "setSelectedLevel"
    /\ UNCHANGED <<storage, hist, listeners>>

\* the tail of every mutation: this.saveToStorage(); this.notifyListeners();
\* an error that saveToStorage throws ends the mutation before the second call
SaveAndNotify(saveOk) ==
    LET saved == saveToStorage(state', storage, saveOk) IN
    /\ storage' = saved.storage
    /\ thrown' = saved.error
    /\ notified' = IF saved.error = NoError
                   THEN notifyListeners(listeners, state')
                   ELSE <<>>
    /\ UNCHANGED listeners

updateLevelProgress(levelId, progress, saveOk) ==
    /\ state' = UpdateLevelProgressState(state, levelId, progress)
    /\ SaveAndNotify(saveOk)
    /\ lastOp' = "updateLevelProgress"
    /\ UNCHANGED hist

completeLevel(levelId, data, saveOk) ==
    /\ state' = CompleteLevelState(state, levelId, data)
    /\ SaveAndNotify(saveOk)
    /\ hist' = [hist EXCEPT ![levelId] = Record(@, data)]
    /\ lastOp' = "completeLevel"

resetProgress(saveOk) ==
    /\ state' = ResetState(state)
    /\ SaveAndNotify(saveOk)
    /\ hist' = [id \in DOMAIN hist |-> NoHistory]
    /\ lastOp' = "resetProgress"

\* subscribe(listener), and the function it returns
subscribe(listener) ==
    /\ listeners' = SetAdd(listeners, listener)
    /\ notified' = <<>>
    /\ thrown' = NoError
    /\ lastOp' = "subscribe"
    /\ UNCHANGED <<state, storage, hist>>

unsubscribe(listener) ==
    /\ listeners' = SetDelete(listeners, listener)
    /\ notified' = <<>>
    /\ thrown' = NoError
    /\ lastOp' = "unsubscribe"
    /\ UNCHANGED <<state, storage, hist>>

getSelectedLevel == state.selectedLevelId

getLevelProgress(levelId) ==
    IF OMapHas(state.levelProgress, levelId)
    THEN OMapGet(state.levelProgress, levelId)
    ELSE Undefined

\* new Map(m): a Map with entries of its own, which hold the value objects of
\* m themselves (alias: the value is the object that m holds under the key)
NewMap(m) == [i \in 1..Len(m) |-> [key |-> m[i].key, value |-> m[i].value, alias |-> TRUE]]

\* new Map(this.state.levelProgress)
getAllProgress == NewMap(state.levelProgress)

\* what a caller may do with the Map it got: delete or set an entry, or
\* assign to a field of the record under a key
CopyEdits ==
    {[kind |-> "delete", field |-> ""], [kind |-> "set", field |-> ""],
     [kind |-> "assign", field |-> "completed"],
     [kind |-> "assign", field |-> "bestCollectibles"]}

\* the value the caller assigns: completed = false, bestCollectibles = 0
Assigned(field) == IF field = "completed" THEN FALSE ELSE 0

\* the store's state after the caller's edit of `copy` under levelId: entries
\* are the caller's own, an aliased record is the store's
StateAfterEdit(st, copy, levelId, edit) ==
    IF /\ edit.kind = "assign"
       /\ OMapHas(copy, levelId)
       /\ copy[CHOOSE i \in 1..Len(copy) : copy[i].key = levelId].alias
    THEN [st EXCEPT !.levelProgress =
             OMapSet(@, levelId, [OMapGet(@, levelId) EXCEPT ![edit.field] = Assigned(edit.field)])]
    ELSE st

isLevelCompleted(levelId) ==
    IF OMapHas(state.levelProgress, levelId)
    THEN OMapGet(state.levelProgress, levelId).completed
    ELSE FALSE

getBestTime(levelId) ==
    IF OMapHas(state.levelProgress, levelId)
    THEN OMapGet(state.levelProgress, levelId).bestTimeMs
    ELSE Null

getBestCollectibles(levelId) ==
    IF OMapHas(state.levelProgress, levelId)
    THEN OMapGet(state.levelProgress, levelId).bestCollectibles
    ELSE 0

getTotalCoinsCollected == state.totalCoinsCollected

getTotalDeaths == state.totalDeaths

(***************************************************************************)
(* events.ts: the event bus, as far as the session's emissions go.  Per    *)
(* key, the history keeps how often the running session emitted and the    *)
(* payload of the last emission.                                           *)
(***************************************************************************)
EventKeys == {"level-started", "collectible-picked", "player-died", "level-completed"}

NoPayload == [none |-> TRUE]

NoEvents == [k \in EventKeys |-> [n |-> 0, last |-> NoPayload]]

\* EventBus.emit(event, data)
emit(bus, event, data) == [bus EXCEPT ![event] = [n |-> @.n + 1, last |-> data]]

(***************************************************************************)
(* events.ts: the bus and its callbacks.  EventBus.events maps a key to    *)
(* the Set of its callbacks; a Set iterates in insertion order.  The       *)
(* callbacks here only take note of what they are called with.  The        *)
(* optional argument of removeAllListeners is Undefined when left out.     *)
(***************************************************************************)
MaxBusOps == 4

\* the keys callers use; the empty string is a key like any other
BusKeys == {"", "player-died", "level-completed"}

Callbacks == {"f", "g"}

Payloads == {[deaths |-> 1], [deaths |-> 2]}

\* faulty variant: the callbacks of a key are kept in an array
EventsOn_Array(evs, event, callback) ==
    IF event \in DOMAIN evs
    THEN [evs EXCEPT ![event] = Append(@, callback)]
    ELSE MapSet(evs, event, <<callback>>)

\* on, lines 55-58: the map it leaves
EventsOn(evs, event, callback) ==
    IF event \in DOMAIN evs
    THEN [evs EXCEPT ![event] = SetAdd(@, callback)]
    ELSE MapSet(evs, event, <<callback>>)

\* off, lines 62-65: the map it leaves
EventsOff(evs, event, callback) ==
    IF event \in DOMAIN evs
    THEN [evs EXCEPT ![event] = SetDelete(@, callback)]
    ELSE evs

\* emit, lines 69-72: the calls callbacks.forEach makes, in order
EmitCalls(evs, event, data) ==
    IF event \in DOMAIN evs
    THEN [i \in 1..Len(evs[event]) |->
             [callback |-> evs[event][i], event |-> event, data |-> data]]
    ELSE <<>>

\* removeAllListeners, lines 76-80: `if (event)` tests the argument for truth
EventsRemoveAll(evs, event) ==
    IF Truthy(event)
    THEN [k \in DOMAIN evs \ {event.v} |-> evs[k]]
    ELSE EmptyMap

\* history of the registrations of one callback under one key: how many
\* on() calls since it was last removed, and which call of the bus was the first
NoReg == [n |-> 0, first |-> 0]

Registered(evs, event, callback) ==
    /\ event \in DOMAIN evs
    /\ \E i \in 1..Len(evs[event]) : evs[event][i] = callback

\* the history forgets what the bus no longer holds
Forget(regs, evs) ==
    [k \in BusKeys |-> [cb \in Callbacks |->
        IF Registered(evs, k, cb) THEN regs[k][cb] ELSE NoReg]]

BusOp(op, event, callback, data) ==
    [op |-> op, event |-> event, callback |-> callback, data |-> data]

on(event, callback) ==
    /\ nBusOps < MaxBusOps
    /\ nBusOps' = nBusOps + 1
    /\ busEvents' = EventsOn(busEvents, event, callback)
    /\ busCalls' = <<>>
    /\ busRegs' = [busRegs EXCEPT ![event][callback] =
                       [n |-> @.n + 1, first |-> IF @.n = 0 THEN nBusOps' ELSE @.first]]
    /\ busOp' = BusOp("on", Str(event), callback, NoPayload)
    /\ UNCHANGED <<levelVars, storeVars, gameVars, orphans>>

off(event, callback) ==
    /\ nBusOps < MaxBusOps
    /\ nBusOps' = nBusOps + 1
    /\ busEvents' = EventsOff(busEvents, event, callback)
    /\ busCalls' = <<>>
    /\ busRegs' = Forget(busRegs, busEvents')
    /\ busOp' = BusOp("off", Str(event), callback, NoPayload)
    /\ UNCHANGED <<levelVars, storeVars, gameVars, orphans>>

\* a caller's EventBus.emit(event, data)
busEmit(event, data) ==
    /\ nBusOps < MaxBusOps
    /\ nBusOps' = nBusOps + 1
    /\ busCalls' = EmitCalls(busEvents, event, data)
    /\ busOp' = BusOp("emit", Str(event), "", data)
    /\ UNCHANGED <<busEvents, busRegs>>
    /\ UNCHANGED <<levelVars, storeVars, gameVars, orphans>>

removeAllListeners(event) ==
    /\ nBusOps < MaxBusOps
    /\ nBusOps' = nBusOps + 1
    /\ busEvents' = EventsRemoveAll(busEvents, event)
    /\ busCalls' = <<>>
    /\ busRegs' = Forget(busRegs, busEvents')
    /\ busOp' = BusOp("removeAllListeners", event, "", NoPayload)
    /\ UNCHANGED <<levelVars, storeVars, gameVars, orphans>>

InitBus ==
    /\ busEvents = EmptyMap
    /\ busCalls = <<>>
    /\ busRegs = [k \in BusKeys |-> [cb \in Callbacks |-> NoReg]]
    /\ busOp = BusOp("none", Undefined, "", NoPayload)
    /\ nBusOps = 0

(***************************************************************************)
(* MainScene.ts.  One frame of the game loop advances the clock, steps the *)
(* tweens and the Arcade world (which moves the bodies and then runs the   *)
(* overlap callbacks in the order setupCollisions registered them) and     *)
(* then calls scene.update().  The clock counts milliseconds; a frame      *)
(* takes a multiple of TickMs and makes one world step; a paused world     *)
(* makes none and reports no overlap.                                      *)
(***************************************************************************)
PLAYER_SPEED == 280

JUMP_VELOCITY == -450

GRAVITY == 800

WIND_FORCE_MULTIPLIER == 1

\* duration of the tween collectCoin starts; its onComplete destroys the coin
COIN_TWEEN_DURATION == 200

MaxX == 3

MaxY == 1

TickMs == 100

MaxDelta == 2

MaxTicks == 6

MaxCoinCount == 3

MaxSessions == 1

FrameDeltas == {k * TickMs : k \in 1..MaxDelta}

Items(doc, k) == Field(doc, k).v

\* the field initialisers of a new MainScene; the sprites do not exist yet
NoPlayer ==
    [x |-> 0, y |-> 0, vx |-> 0, vy |-> 0, ax |-> 0, ay |-> 0,
     gravityY |-> 0, touchingDown |-> FALSE]

NoHint == [text |-> "", visible |-> FALSE]

\* history of the ticks: the last update() saw jump held (up), the player on
\* the ground (onGround) and made it jump (jumped); holdJumps counts the jumps
\* since update() last saw the jump key released
NoTick == [up |-> FALSE, onGround |-> FALSE, jumped |-> FALSE, holdJumps |-> 0]

\* faulty variant: the timers start at the end of the first half cycle
mountLevel_OffPhase(doc) ==
    [coins |-> [i \in 1..Len(Items(doc, "collectibles")) |->
                    [id |-> Field(Items(doc, "collectibles")[i], "id").v,
                     state |-> "active", elapsed |-> 0]],
     windZones |-> [i \in 1..Len(Items(doc, "windZones")) |->
                    [active |-> TRUE, pulseTimer |-> TickMs]]]

\* mountLevel: one sprite per collectible, one timer per wind zone
mountLevel(doc) ==
    [coins |-> [i \in 1..Len(Items(doc, "collectibles")) |->
                    [id |-> Field(Items(doc, "collectibles")[i], "id").v,
                     state |-> "active", elapsed |-> 0]],
     windZones |-> [i \in 1..Len(Items(doc, "windZones")) |->
                    [active |-> TRUE, pulseTimer |-> 0]]]

createPlayer(doc) ==
    [x |-> Field(Field(doc, "playerSpawn"), "x").v,
     y |-> Field(Field(doc, "playerSpawn"), "y").v,
     vx |-> 0, vy |-> 0, ax |-> 0, ay |-> 0,
     gravityY |-> GRAVITY, touchingDown |-> FALSE]

\* faulty variant: every grounded tick with jump held jumps
handlePlayerMovement_NoDebounce(p, cj, left, right, up) ==
    LET vx == IF left THEN -PLAYER_SPEED ELSE IF right THEN PLAYER_SPEED ELSE 0
        onGround == p.touchingDown
        jump == up /\ onGround
    IN  [player |-> [p EXCEPT !.vx = vx, !.vy = IF jump THEN JUMP_VELOCITY ELSE @],
         canJump |-> IF ~up /\ onGround THEN TRUE ELSE IF jump THEN FALSE ELSE cj,
         jumped |-> jump]

\* faulty variant: two independent tests, the later assignment stays
handlePlayerMovement_RightOverrides(p, cj, left, right, up) ==
    LET vx == IF right THEN PLAYER_SPEED ELSE IF left THEN -PLAYER_SPEED ELSE 0
        onGround == p.touchingDown
        jump == up /\ onGround /\ cj
    IN  [player |-> [p EXCEPT !.vx = vx, !.vy = IF jump THEN JUMP_VELOCITY ELSE @],
         canJump |-> IF ~up /\ onGround THEN TRUE ELSE IF jump THEN FALSE ELSE cj,
         jumped |-> jump]

\* faulty variant: the velocity is kept when no key is held
handlePlayerMovement_Coast(p, cj, left, right, up) ==
    LET vx == IF left THEN -PLAYER_SPEED ELSE IF right THEN PLAYER_SPEED ELSE p.vx
        onGround == p.touchingDown
        jump == up /\ onGround /\ cj
    IN  [player |-> [p EXCEPT !.vx = vx, !.vy = IF jump THEN JUMP_VELOCITY ELSE @],
         canJump |-> IF ~up /\ onGround THEN TRUE ELSE IF jump THEN FALSE ELSE cj,
         jumped |-> jump]

\* faulty variant: the flag is restored whenever jump is released
handlePlayerMovement_AirReset(p, cj, left, right, up) ==
    LET vx == IF left THEN -PLAYER_SPEED ELSE IF right THEN PLAYER_SPEED ELSE 0
        onGround == p.touchingDown
        jump == up /\ onGround /\ cj
    IN  [player |-> [p EXCEPT !.vx = vx, !.vy = IF jump THEN JUMP_VELOCITY ELSE @],
         canJump |-> IF ~up THEN TRUE ELSE IF jump THEN FALSE ELSE cj,
         jumped |-> jump]

\* handlePlayerMovement: the body and the flag it leaves, and whether it jumped
handlePlayerMovement(p, cj, left, right, up) ==
    LET vx == IF left THEN -PLAYER_SPEED ELSE IF right THEN PLAYER_SPEED ELSE 0
        onGround == p.touchingDown
        jump == up /\ onGround /\ cj
    IN  [player |-> [p EXCEPT !.vx = vx, !.vy = IF jump THEN JUMP_VELOCITY ELSE @],
         canJump |-> IF ~up /\ onGround THEN TRUE ELSE IF jump THEN FALSE ELSE cj,
         jumped |-> jump]

\* the player's centre is inside the zone, bounds included
InZone(p, zone) ==
    /\ 2 * p.x >= 2 * Field(zone, "x").v - Field(zone, "width").v
    /\ 2 * p.x <= 2 * Field(zone, "x").v + Field(zone, "width").v
    /\ 2 * p.y >= 2 * Field(zone, "y").v - Field(zone, "height").v
    /\ 2 * p.y <= 2 * Field(zone, "y").v + Field(zone, "height").v

\* faulty variant: the force is added to the acceleration
Blow_Additive(p, zone) ==
    [p EXCEPT !.ax = @ + Field(zone, "forceX").v * WIND_FORCE_MULTIPLIER,
              !.ay = @ + Field(zone, "forceY").v * WIND_FORCE_MULTIPLIER]

\* setAccelerationX, setAccelerationY with the force of the zone
Blow(p, zone) ==
    [p EXCEPT !.ax = Field(zone, "forceX").v * WIND_FORCE_MULTIPLIER,
              !.ay = Field(zone, "forceY").v * WIND_FORCE_MULTIPLIER]

\* updateWindZones: the forEach from zone i on
RECURSIVE WindFrom(_, _, _, _, _)
WindFrom(i, p, zones, doc, delta) ==
    IF i > Len(zones)
    THEN [player |-> p, windZones |-> zones]
    ELSE LET zone == Items(doc, "windZones")[i] IN
         IF ~InZone(p, zone)
         THEN WindFrom(i + 1, p, zones, doc, delta)
         ELSE IF Field(zone, "type") = Str("constant")
         THEN WindFrom(i + 1, Blow(p, zone), zones, doc, delta)
         ELSE IF Field(zone, "type") = Str("pulsed") /\ Truthy(Field(zone, "pulseDuration"))
         THEN LET timer == zones[i].pulseTimer + delta
                  cycle == timer % (Field(zone, "pulseDuration").v * 2)
              IN  WindFrom(i + 1,
                           IF cycle < Field(zone, "pulseDuration").v THEN Blow(p, zone) ELSE p,
                           [zones EXCEPT ![i].pulseTimer = timer], doc, delta)
         ELSE WindFrom(i + 1, p, zones, doc, delta)

updateWindZones(p, zones, doc, delta) == WindFrom(1, p, zones, doc, delta)

\* checkHints: the text object it leaves
checkHints(died, doc, hint) ==
    LET hints == Items(doc, "hints") IN
    IF died >= 3 /\ Len(hints) > 0
    THEN LET hintIndex == MathMin((died \div 3) - 1, Len(hints) - 1)
             h == IF hintIndex + 1 \in 1..Len(hints) THEN hints[hintIndex + 1] ELSE Undefined
         IN  IF Truthy(h) THEN [text |-> h.v, visible |-> TRUE] ELSE hint
    ELSE [hint EXCEPT !.visible = FALSE]

\* faulty variant: the respawned body keeps its velocity
respawnPlayer_KeepVelocity(p, doc) ==
    [p EXCEPT !.x = Field(Field(doc, "playerSpawn"), "x").v,
              !.y = Field(Field(doc, "playerSpawn"), "y").v]

respawnPlayer(p, doc) ==
    [p EXCEPT !.x = Field(Field(doc, "playerSpawn"), "x").v,
              !.y = Field(Field(doc, "playerSpawn"), "y").v,
              !.vx = 0, !.vy = 0]

\* faulty variant: the completion carries the clock instead of the elapsed time
GoalData_ClockTime(id, clock, start, picked, died) ==
    [id |-> id, timeMs |-> clock, picked |-> picked, deaths |-> died]

\* reachGoal, lines 327-335: what it passes to the store and to the bus
GoalData(id, clock, start, picked, died) ==
    [id |-> id, timeMs |-> clock - start, picked |-> picked, deaths |-> died]

(***************************************************************************)
(* The Arcade world, at the scale of cells: a body moves one cell a step   *)
(* in the direction of its velocity and stays inside the world bounds; a   *)
(* jump rises one row and ends there; a body that is pulled down and has   *)
(* no platform under it falls one row a step.                              *)
(***************************************************************************)
Sign(v) == IF v > 0 THEN 1 ELSE IF v < 0 THEN -1 ELSE 0

Clamp(v, lo, hi) == IF v < lo THEN lo ELSE IF v > hi THEN hi ELSE v

\* a platform lies right under the cell (x, y)
Supported(doc, x, y) ==
    \E pf \in Elems(Field(doc, "platforms")) :
        /\ 2 * x >= 2 * Field(pf, "x").v - Field(pf, "width").v
        /\ 2 * x <= 2 * Field(pf, "x").v + Field(pf, "width").v
        /\ y + 1 = Field(pf, "y").v

\* Body.update and the platform collider of one world step
WorldStep(p, doc, delta) ==
    LET vx == p.vx + ((p.ax * delta) \div 1000)
        x == Clamp(p.x + Sign(vx), 0, MaxX)
    IN  IF p.vy < 0
        THEN [p EXCEPT !.vx = vx, !.x = x, !.y = Clamp(p.y - 1, 0, MaxY),
                       !.vy = 0, !.touchingDown = FALSE]
        ELSE IF Supported(doc, x, p.y) \/ p.gravityY + p.ay <= 0
        THEN [p EXCEPT !.vx = vx, !.x = x, !.vy = 0,
                       !.touchingDown = Supported(doc, x, p.y)]
        ELSE LET y == Clamp(p.y + 1, 0, MaxY) IN
             [p EXCEPT !.vx = vx, !.x = x, !.y = y, !.vy = 0,
                       !.touchingDown = Supported(doc, x, y)]

\* the tweens of the coins after delta more milliseconds
TweenUpdate(cs, delta) ==
    [i \in 1..Len(cs) |->
        IF cs[i].state # "fading" THEN cs[i]
        ELSE IF cs[i].elapsed + delta >= COIN_TWEEN_DURATION
        THEN [cs[i] EXCEPT !.state = "destroyed", !.elapsed = 0]
        ELSE [cs[i] EXCEPT !.elapsed = @ + delta]]

At(p, obj) == p.x = Field(obj, "x").v /\ p.y = Field(obj, "y").v

\* the overlaps the world step reports: coins not yet destroyed, spikes, the goal
Overlaps(p, cs, doc) ==
    {[kind |-> "coin", i |-> i] :
        i \in {j \in 1..Len(cs) :
                 cs[j].state # "destroyed" /\ At(p, Items(doc, "collectibles")[j])}}
    \cup
    {[kind |-> "hazard", i |-> i] :
        i \in {j \in 1..Len(Items(doc, "hazards")) :
                 /\ Field(Items(doc, "hazards")[j], "type") = Str("spikes")
                 /\ At(p, Items(doc, "hazards")[j])}}
    \cup
    {[kind |-> "goal", i |-> 0] : i \in {j \in {0} : At(p, Field(doc, "goal"))}}

Level == Deref(currentLevelData)

\* !this.levelId: null, or the empty id
NoSelection(id) == id \in {NoLevel, ""}

\* faulty variant: update() without its first line
updateUnloaded_NoGuard(p, cj, left, right, up) ==
    handlePlayerMovement(p, cj, left, right, up)

\* update() of a scene without level data: line 117 returns at once
updateUnloaded(p, cj, left, right, up) ==
    [player |-> p, canJump |-> cj, jumped |-> FALSE]

\* create() has returned or is suspended, and no continuation is due
LoopRuns ==
    /\ createPc \in {"await", "done", "returned"}
    /\ createPc = "await" => loads[loadCall].status = "pending"

InitGame ==
    /\ orphans = {}
    /\ screen = "menu"
    /\ createPc = "off"
    /\ loadCall = 0
    /\ stage = "world"
    /\ now = 0
    /\ loopDelta = 0
    /\ sceneLevelId = NoLevel
    /\ currentLevelData = Null
    /\ coinCount = 0
    /\ canJump = TRUE
    /\ deaths = 0
    /\ startTime = 0
    /\ windZones = <<>>
    /\ hintText = NoHint
    /\ player = NoPlayer
    /\ coins = <<>>
    /\ physicsPaused = FALSE
    /\ contacts = {}
    /\ events = NoEvents
    /\ session = 0
    /\ tick = NoTick

\* new Phaser.Game with a new MainScene (createGame), or none after destroyGame
NewMainScene ==
    /\ loadCall' = 0
    /\ stage' = "world"
    /\ loopDelta' = 0
    /\ sceneLevelId' = NoLevel
    /\ currentLevelData' = Null
    /\ coinCount' = 0
    /\ canJump' = TRUE
    /\ deaths' = 0
    /\ startTime' = 0
    /\ windZones' = <<>>
    /\ hintText' = NoHint
    /\ player' = NoPlayer
    /\ coins' = <<>>
    /\ physicsPaused' = FALSE
    /\ contacts' = {}
    /\ events' = NoEvents
    /\ tick' = NoTick

\* App.handleLevelSelected, and the PhaserGame effect that the render runs
handleLevelSelected(id) ==
    /\ screen = "menu"
    /\ session < MaxSessions
    /\ setSelectedLevel(id)
    /\ screen' = "playing"
    /\ createPc' = "start"
    /\ NewMainScene
    /\ session' = session + 1
    /\ UNCHANGED <<nOps, lastArgs, now>>
    /\ UNCHANGED levelVars
    /\ UNCHANGED <<busVars, orphans>>

\* App.handleBackToMenu, and the cleanup of the PhaserGame effect; taken here
\* between frames, once create() has run to its end or returned early
handleBackToMenu ==
    /\ screen = "playing"
    /\ createPc \in {"done", "returned"}
    /\ contacts = {}
    /\ screen' = "menu"
    /\ createPc' = "off"
    /\ NewMainScene
    /\ UNCHANGED <<session, now>>
    /\ UNCHANGED levelVars
    /\ UNCHANGED <<busVars, orphans>>
    /\ UNCHANGED storeVars

\* create() up to `await loadLevel(this.levelId)`
create ==
    /\ createPc = "start"
    /\ sceneLevelId' = getSelectedLevel
    /\ IF NoSelection(getSelectedLevel)
       THEN /\ createPc' = "returned"
            /\ UNCHANGED loadCall
            /\ UNCHANGED levelVars
       ELSE /\ loadLevelCall(getSelectedLevel)
            /\ loadCall' = Len(loads')
            /\ createPc' = "await"
    /\ UNCHANGED <<screen, stage, now, loopDelta>>
    /\ UNCHANGED <<currentLevelData, coinCount, canJump, deaths, startTime,
                   windZones, hintText, player, coins, physicsPaused, contacts>>
    /\ UNCHANGED ghostVars
    /\ UNCHANGED storeVars
    /\ UNCHANGED <<busVars, orphans>>

\* create() from the settled promise on
createResume ==
    /\ createPc = "await"
    /\ loads[loadCall].status # "pending"
    /\ IF loads[loadCall].status = "rejected"
       THEN /\ createPc' = "returned"
            /\ UNCHANGED <<currentLevelData, windZones, hintText, player, coins,
                           startTime, events>>
       ELSE LET doc == Deref(loads[loadCall].value) IN
            /\ currentLevelData' = loads[loadCall].value
            /\ coins' = mountLevel(doc).coins
            /\ windZones' = mountLevel(doc).windZones
            /\ player' = createPlayer(doc)
            /\ hintText' = NoHint
            /\ startTime' = now
            /\ events' = emit(events, "level-started",
                              [id |-> sceneLevelId, name |-> Field(doc, "name").v,
                               totalCollectibles |-> Len(Items(doc, "collectibles"))])
            /\ createPc' = "done"
    /\ UNCHANGED <<screen, loadCall, stage, now, loopDelta>>
    /\ UNCHANGED <<sceneLevelId, coinCount, canJump, deaths, physicsPaused, contacts>>
    /\ UNCHANGED <<session, tick>>
    /\ UNCHANGED levelVars
    /\ UNCHANGED <<busVars, orphans>>
    /\ UNCHANGED storeVars

\* the part of a frame before scene.update(): clock, tweens, world step
Step(delta) ==
    /\ LoopRuns
    /\ stage = "world"
    /\ now + delta <= MaxTicks * TickMs
    /\ now' = now + delta
    /\ loopDelta' = delta
    /\ stage' = "scene"
    /\ coins' = TweenUpdate(coins, delta)
    /\ IF currentLevelData # Null /\ ~physicsPaused
       THEN /\ player' = WorldStep(player, Level, delta)
            /\ contacts' = Overlaps(player', coins', Level)
       ELSE /\ UNCHANGED player
            /\ contacts' = {}
    /\ UNCHANGED <<screen, createPc, loadCall>>
    /\ UNCHANGED <<sceneLevelId, currentLevelData, coinCount, canJump, deaths, startTime,
                   windZones, hintText, physicsPaused>>
    /\ UNCHANGED ghostVars
    /\ UNCHANGED levelVars
    /\ UNCHANGED <<busVars, orphans>>
    /\ UNCHANGED storeVars

\* scene.update(), with the cursor keys as they are down at the call: what
\* it does to the scene
updateScene(left, right, up) ==
    /\ LoopRuns
    /\ stage = "scene"
    /\ contacts = {}
    /\ stage' = "world"
    /\ IF currentLevelData = Null
       THEN /\ player' = updateUnloaded(player, canJump, left, right, up).player
            /\ canJump' = updateUnloaded(player, canJump, left, right, up).canJump
            /\ UNCHANGED <<windZones, hintText, tick>>
       ELSE LET m == handlePlayerMovement(player, canJump, left, right, up)
                w == updateWindZones(m.player, windZones, Level, loopDelta)
            IN  /\ player' = w.player
                /\ canJump' = m.canJump
                /\ windZones' = w.windZones
                /\ hintText' = checkHints(deaths, Level, hintText)
                /\ tick' = [up |-> up, onGround |-> player.touchingDown,
                            jumped |-> m.jumped,
                            holdJumps |-> IF ~up THEN 0
                                          ELSE tick.holdJumps + (IF m.jumped THEN 1 ELSE 0)]
    /\ UNCHANGED <<screen, createPc, loadCall, now, loopDelta>>
    /\ UNCHANGED <<sceneLevelId, currentLevelData, coinCount, deaths, startTime,
                   coins, physicsPaused, contacts>>
    /\ UNCHANGED <<events, session>>
    /\ UNCHANGED levelVars
    /\ UNCHANGED <<busVars, orphans>>

update(left, right, up) ==
    /\ updateScene(left, right, up)
    /\ UNCHANGED storeVars

\* collectCoin, called for an overlap of the player with coin c
collectCoin(c) ==
    /\ [kind |-> "coin", i |-> c] \in contacts
    /\ coinCount < MaxCoinCount
    /\ contacts' = contacts \ {[kind |-> "coin", i |-> c]}
    /\ coinCount' = coinCount + 1
    /\ coins' = IF coins[c].state = "active"
                THEN [coins EXCEPT ![c].state = "fading"]
                ELSE coins
    /\ events' = emit(events, "collectible-picked",
                      [picked |-> coinCount',
                       total |-> Len(Items(Level, "collectibles"))])
    /\ UNCHANGED loopVars
    /\ UNCHANGED <<sceneLevelId, currentLevelData, canJump, deaths, startTime,
                   windZones, hintText, player, physicsPaused>>
    /\ UNCHANGED <<session, tick>>
    /\ UNCHANGED levelVars
    /\ UNCHANGED <<busVars, orphans>>
    /\ UNCHANGED storeVars

\* hitHazard, called for an overlap of the player with hazard h
hitHazard(h) ==
    /\ [kind |-> "hazard", i |-> h] \in contacts
    /\ \A o \in contacts : o.kind # "coin"
    /\ deaths < MaxDeaths
    /\ contacts' = contacts \ {[kind |-> "hazard", i |-> h]}
    /\ deaths' = deaths + 1
    /\ player' = respawnPlayer(player, Level)
    /\ events' = emit(events, "player-died", [deaths |-> deaths'])
    /\ UNCHANGED loopVars
    /\ UNCHANGED <<sceneLevelId, currentLevelData, coinCount, canJump, startTime,
                   windZones, hintText, coins, physicsPaused>>
    /\ UNCHANGED <<session, tick>>
    /\ UNCHANGED levelVars
    /\ UNCHANGED <<busVars, orphans>>
    /\ UNCHANGED storeVars

\* reachGoal, called for the overlap of the player with the goal: what it
\* does to the scene and to the progress store
reachGoalScene(saveOk) ==
    /\ [kind |-> "goal", i |-> 0] \in contacts
    /\ \A o \in contacts : o.kind = "goal"
    /\ contacts' = contacts \ {[kind |-> "goal", i |-> 0]}
    /\ IF currentLevelData = Null \/ NoSelection(sceneLevelId)
       THEN UNCHANGED <<state, storage, hist, lastOp, listeners, notified, thrown,
                        events, physicsPaused>>
       ELSE LET data == GoalData(sceneLevelId, now, startTime, coinCount, deaths) IN
            /\ completeLevel(sceneLevelId, data, saveOk)
            /\ events' = emit(events, "level-completed", data)
            /\ physicsPaused' = TRUE
    /\ UNCHANGED <<nOps, lastArgs>>
    /\ UNCHANGED loopVars
    /\ UNCHANGED <<sceneLevelId, currentLevelData, coinCount, canJump, deaths, startTime,
                   windZones, hintText, player, coins>>
    /\ UNCHANGED <<session, tick>>
    /\ UNCHANGED levelVars
    /\ UNCHANGED orphans

reachGoal(saveOk) ==
    /\ reachGoalScene(saveOk)
    /\ UNCHANGED busVars

(***************************************************************************)
(* The progress store driven by arbitrary callers, from a first run        *)
(* (nothing persisted yet).                                                *)
(***************************************************************************)
StoreIds == {"wind_01", "wind_02"}

CompletionData(levelId) ==
    [id : {levelId}, timeMs : 0..MaxTimeMs, picked : 0..MaxPicked, deaths : 0..MaxDeaths]

Partials ==
    {[completed |-> TRUE], [bestTimeMs |-> Num(1)],
     [bestCollectibles |-> 1, totalDeaths |-> 1]}

InitStore ==
    /\ storage = Null
    /\ state = loadFromStorage(storage)
    /\ hist = [id \in StoreIds |-> NoHistory]
    /\ lastOp = "constructor"
    /\ nOps = 0
    /\ listeners = <<>>
    /\ notified = <<>>
    /\ thrown = NoError
    /\ lastArgs = NoArgs

\* the calls below are made with localStorage accepting (TRUE) or refusing
\* (FALSE) the write, as `saves` allows
CallCompleteLevel(saves) ==
    /\ nOps < MaxOps
    /\ nOps' = nOps + 1
    /\ \E levelId \in StoreIds :
        \E data \in CompletionData(levelId), saveOk \in saves :
            completeLevel(levelId, data, saveOk)
    /\ UNCHANGED lastArgs
    /\ UNCHANGED levelVars
    /\ UNCHANGED <<busVars, orphans>>
    /\ UNCHANGED gameVars

CallUpdateLevelProgress(saves) ==
    /\ nOps < MaxOps
    /\ nOps' = nOps + 1
    /\ \E levelId \in StoreIds, progress \in Partials, saveOk \in saves :
            updateLevelProgress(levelId, progress, saveOk)
    /\ UNCHANGED lastArgs
    /\ UNCHANGED levelVars
    /\ UNCHANGED <<busVars, orphans>>
    /\ UNCHANGED gameVars

CallResetProgress(saves) ==
    /\ nOps < MaxOps
    /\ nOps' = nOps + 1
    /\ \E saveOk \in saves : resetProgress(saveOk)
    /\ UNCHANGED lastArgs
    /\ UNCHANGED levelVars
    /\ UNCHANGED <<busVars, orphans>>
    /\ UNCHANGED gameVars

\* histories of completeLevel calls, every save accepted
NextComplete == CallCompleteLevel({TRUE})

Init ==
    /\ InitLevels
    /\ InitStore
    /\ InitGame
    /\ InitBus

SpecComplete == Init /\ [][NextComplete]_vars

\* histories of all the mutations, every save accepted
NextProgress ==
    \/ CallCompleteLevel({TRUE})
    \/ CallUpdateLevelProgress({TRUE})
    \/ CallResetProgress({TRUE})

SpecProgress == Init /\ [][NextProgress]_vars

\* C3: over completeLevel calls, the best time of an id never rises and is
\* the least timeMs passed for it, and the best collectible count never
\* falls and is the greatest picked passed for it.
C3_BestIsMonotone ==
    /\ [](\A id \in StoreIds :
            hist[id].n > 0 =>
                /\ getBestTime(id) = Num(hist[id].minTime)
                /\ getBestCollectibles(id) = hist[id].maxPicked)
    /\ [][\A id \in StoreIds :
            /\ getBestTime(id) # Null =>
                  /\ getBestTime(id)' # Null
                  /\ getBestTime(id)'.v <= getBestTime(id).v
            /\ getBestCollectibles(id)' >= getBestCollectibles(id)]_vars

C3_Witness ==
    \E id \in StoreIds :
        /\ hist[id].n >= 2
        /\ hist[id].lastWorse
        /\ getBestTime(id) # Null
        /\ getBestCollectibles(id) > 0

\* C4: the record's totalDeaths of an id is the sum of the deaths of all
\* completeLevel calls for that id; a completion of another id leaves it.
C4_DeathsAccumulate ==
    /\ [](\A id \in StoreIds :
            IF hist[id].n > 0
            THEN getLevelProgress(id).totalDeaths = hist[id].sumDeaths
            ELSE getLevelProgress(id) = Undefined)
    /\ [][\A id \in StoreIds :
            hist'[id] = hist[id] => getLevelProgress(id)' = getLevelProgress(id)]_vars

C4_Witness ==
    \E id, other \in StoreIds :
        /\ id # other
        /\ hist[id].n >= 2 /\ hist[id].sumDeaths >= 2
        /\ hist[other].n >= 1 /\ hist[other].sumDeaths = 0
        /\ lastOp = "completeLevel"

NextLoad ==
    \/ \E levelId \in LevelIds : loadLevel(levelId)
    \/ \E c \in 1..Len(loads), fetchOk \in BOOLEAN : loadLevelResume(c, fetchOk)
    \/ clearLevelCache

SpecLoad == Init /\ [][NextLoad]_vars

Calls == 1..Len(loads)

\* C1: a loadLevel(id) made after a load of id resolved (and no
\* clearLevelCache since) resolves with the very same object, without
\* importing and without validating again.
C1_SecondLoadIsCached ==
    \A c \in Calls :
        loads[c].after # Undefined =>
            /\ loads[c].status = "resolved"
            /\ loads[c].value = loads[c].after
            /\ loads[c].fetch = "none"
            /\ ~loads[c].validated

C1_Witness ==
    \E c \in Calls :
        /\ loads[c].after # Undefined
        /\ loads[c].status = "resolved"
        /\ \E b \in 1..(c - 1) : loads[b].id = loads[c].id /\ loads[b].fetch = "ok"

\* C2: a load whose import fails or whose document fails validateLevelData
\* rejects with an error naming the id and no data; the rejection leaves the
\* cache as it was, and a call that finds the id uncached imports again.
C2_RejectedLoad ==
    /\ [](\A c \in Calls :
            (\/ loads[c].fetch = "failed"
             \/ /\ loads[c].fetch = "ok"
                /\ ~validateLevelData(LevelFiles[loads[c].id]))
            => /\ loads[c].status = "rejected"
               /\ Len(loads[c].error) = 2 /\ loads[c].error[2] = loads[c].id
               /\ loads[c].value = Undefined)
    /\ [][\A c \in Calls :
            (loads[c].status = "pending" /\ loads'[c].status = "rejected")
            => /\ levelCache' = levelCache
               /\ getCachedLevel(loads[c].id)' = getCachedLevel(loads[c].id)]_vars
    /\ [][(Len(loads') = Len(loads) + 1
            /\ loads'[Len(loads')].id \notin DOMAIN levelCache)
          => loads'[Len(loads')].fetch = "pending"]_vars

C2_Witness ==
    \E b, c \in Calls :
        /\ b < c
        /\ loads[b].id = loads[c].id
        /\ loads[b].status = "rejected" /\ loads[b].fetch = "ok"
        /\ loads[c].status = "rejected" /\ loads[c].fetch = "failed"
        /\ getCachedLevel(loads[b].id) = Undefined

(***************************************************************************)
(* The application: the player picks levels from the menu and plays them.  *)
(***************************************************************************)
PlayStep ==
    \/ \E delta \in FrameDeltas : Step(delta)
    \/ \E left, right, up \in BOOLEAN : update(left, right, up)
    \/ \E c \in 1..Len(coins) : collectCoin(c)
    \/ \E h \in {o.i : o \in contacts} : hitHazard(h)
    \/ \E saveOk \in BOOLEAN : reachGoal(saveOk)

Next ==
    \/ \E id \in MenuIds : handleLevelSelected(id)
    \/ handleBackToMenu
    \/ create
    \/ \E c \in 1..Len(loads), fetchOk \in BOOLEAN : loadLevelResume(c, fetchOk)
    \/ createResume
    \/ PlayStep

Spec == Init /\ [][Next]_vars

\* the callback of a contact of the current world step runs in this step
Handled(o) == o \in contacts /\ o \notin contacts'

\* scene.update() runs in this step
Ticks == stage = "scene" /\ stage' = "world"

SessionCompleted == events["level-completed"].n > 0

\* C6: reaching the goal of level L at elapsed time T = now - startTime with
\* coin count P and death count D emits exactly one level-completed event
\* {id: L, timeMs: T, picked: P, deaths: D} and passes exactly these values to
\* the progress store; a level without a record gets the record
\* {completed: true, bestTimeMs: T, bestCollectibles: P, totalDeaths: D}.
C6_GoalCompletesLevel ==
    /\ [](events["level-completed"].n <= 1)
    /\ [][Handled([kind |-> "goal", i |-> 0]) =>
            LET payload == [id |-> sceneLevelId, timeMs |-> now - startTime,
                            picked |-> coinCount, deaths |-> deaths]
            IN  /\ events["level-completed"].n = 0
                /\ events'["level-completed"] = [n |-> 1, last |-> payload]
                /\ lastOp' = "completeLevel"
                /\ hist'[sceneLevelId] = Record(hist[sceneLevelId], payload)
                /\ getTotalCoinsCollected' = getTotalCoinsCollected + coinCount
                /\ getTotalDeaths' = getTotalDeaths + deaths
                /\ getLevelProgress(sceneLevelId) = Undefined =>
                      getLevelProgress(sceneLevelId)' =
                          [levelId |-> sceneLevelId, completed |-> TRUE,
                           bestTimeMs |-> Num(now - startTime),
                           bestCollectibles |-> coinCount,
                           totalDeaths |-> deaths]]_vars

\* the first completion of wind_01, started after the clock had advanced,
\* with both coins picked and a death on the way
C6_Witness ==
    /\ SessionCompleted
    /\ sceneLevelId = "wind_01"
    /\ startTime > 0
    /\ events["level-completed"].last =
           [id |-> "wind_01", timeMs |-> now - startTime, picked |-> 2, deaths |-> 1]
    /\ getLevelProgress("wind_01") =
           [levelId |-> "wind_01", completed |-> TRUE,
            bestTimeMs |-> Num(now - startTime), bestCollectibles |-> 2,
            totalDeaths |-> 1]

\* C7: once the goal has been reached in a session, no later step of the
\* session changes the player's velocity, canJump, a pulse timer or the hint,
\* emits an event or writes to the progress store.
C7_CompletedIsTerminal ==
    [][(SessionCompleted /\ screen' = screen) =>
          /\ player'.vx = player.vx
          /\ player'.vy = player.vy
          /\ canJump' = canJump
          /\ windZones' = windZones
          /\ hintText' = hintText
          /\ events' = events
          /\ state' = state
          /\ storage' = storage]_vars

\* C8: the callback of a coin overlap runs for a coin not picked before, adds
\* exactly one to the coin count, takes the coin out of play and emits
\* collectible-picked with the new count; so the coin count never exceeds the
\* number of collectibles of the level, however often the overlap is reported.
C8_CollectibleCountedOnce ==
    /\ [][\A o \in contacts :
            (o.kind = "coin" /\ Handled(o)) =>
                /\ coins[o.i].state = "active"
                /\ coinCount' = coinCount + 1
                /\ coins'[o.i].state # "active"
                /\ events'["collectible-picked"].n = events["collectible-picked"].n + 1
                /\ events'["collectible-picked"].last.picked = coinCount + 1]_vars
    /\ [](currentLevelData # Null =>
            coinCount <= Len(Items(Level, "collectibles")))

\* C9: the callback of a hazard overlap adds exactly one to the death count,
\* puts the player on the spawn point with velocity (0, 0), leaves the coin
\* count and the coins as they are and emits player-died with the new count;
\* the session goes on.
C9_HazardRespawns ==
    [][\A o \in contacts :
          (o.kind = "hazard" /\ Handled(o)) =>
              /\ deaths' = deaths + 1
              /\ player'.x = Field(Field(Level, "playerSpawn"), "x").v
              /\ player'.y = Field(Field(Level, "playerSpawn"), "y").v
              /\ player'.vx = 0
              /\ player'.vy = 0
              /\ coinCount' = coinCount
              /\ coins' = coins
              /\ events' = [events EXCEPT !["player-died"] =
                               [n |-> @.n + 1, last |-> [deaths |-> deaths + 1]]]
              /\ createPc' = "done"
              /\ ~physicsPaused'
              /\ ~SessionCompleted'
              /\ UNCHANGED <<state, storage>>]_vars

\* the player ran into the spikes with a coin picked whose tween still runs
C9_Witness ==
    /\ currentLevelData # Null
    /\ events["player-died"] = [n |-> 1, last |-> [deaths |-> 1]]
    /\ deaths = 1
    /\ coinCount >= 1
    /\ \E c \in 1..Len(coins) : coins[c].state = "fading"
    /\ At(player, Field(Level, "playerSpawn"))
    /\ player.vx = 0 /\ player.vy = 0
    /\ stage = "scene"
    /\ ~physicsPaused

\* C10: while update() sees jump held tick after tick, it sets the jump
\* velocity at most once (so at most once per ground contact), and of two
\* consecutive ticks with the player grounded and jump held at most one jumps.
C10_JumpDebounce ==
    /\ [](tick.holdJumps <= 1)
    /\ [][(Ticks /\ tick.up /\ tick.onGround /\ tick'.up /\ tick'.onGround) =>
            ~(tick.jumped /\ tick'.jumped)]_vars

\* jump is still held on a grounded tick after the jump of this hold: no jump
C10_Witness ==
    /\ tick.up /\ tick.onGround
    /\ tick.holdJumps = 1
    /\ ~tick.jumped
    /\ ~canJump
    /\ ~physicsPaused

(***************************************************************************)
(* Ticks of a level in play.  The session is taken up in the frame in      *)
(* which the player has respawned for the d-th time (d = 0: the level has  *)
(* just been mounted): the world step of the frame has run, update() is    *)
(* due.  The clock is counted from that frame.                             *)
(***************************************************************************)
MaxHintDeaths == 9

TickLevels == {"wind_01", "wind_02", "wind_04"}

\* the text object as the ticks at 0, 1, ... d deaths leave it
RECURSIVE HintAt(_, _)
HintAt(d, doc) ==
    IF d < 0 THEN NoHint ELSE checkHints(d, doc, HintAt(d - 1, doc))

InitTickOf(ids) ==
    /\ InitBus
    /\ \E id \in ids, d \in 0..MaxHintDeaths :
        LET r == LoadLevelSettled(EmptyMap, id, TRUE)
            doc == LevelFiles[id]
        IN  /\ levelCache = r.cache
            /\ loads = <<r.call @@ [after |-> Undefined]>>
            /\ resolved = [k \in KnownIds |-> IF k = id THEN r.call.value ELSE Undefined]
            /\ storage = Null
            /\ state = [InitialState EXCEPT !.selectedLevelId = id]
            /\ hist = [k \in StoreIds \cup {id} |-> NoHistory]
            /\ lastOp = "setSelectedLevel"
            /\ nOps = 0
            /\ listeners = <<>>
            /\ notified = <<>>
            /\ thrown = NoError
            /\ lastArgs = NoArgs
            /\ screen = "playing"
            /\ orphans = {}
            /\ createPc = "done"
            /\ loadCall = 1
            /\ stage = "scene"
            /\ now = 0
            /\ loopDelta = TickMs
            /\ sceneLevelId = id
            /\ currentLevelData = r.call.value
            /\ coinCount = 0
            /\ canJump = TRUE
            /\ deaths = d
            /\ startTime = 0
            /\ windZones = mountLevel(doc).windZones
            /\ hintText = HintAt(d - 1, doc)
            /\ player = createPlayer(doc)
            /\ coins = mountLevel(doc).coins
            /\ physicsPaused = FALSE
            /\ contacts = {}
            /\ events = [emit(NoEvents, "level-started",
                              [id |-> id, name |-> Field(doc, "name").v,
                               totalCollectibles |-> Len(Items(doc, "collectibles"))])
                         EXCEPT !["player-died"] =
                             IF d = 0 THEN @ ELSE [n |-> d, last |-> [deaths |-> d]]]
            /\ session = 1
            /\ tick = NoTick

InitTick == InitTickOf(TickLevels)

SpecTick == InitTick /\ [][PlayStep]_vars

\* the zones of the level that hold the player
ZonesAt(p) == {i \in 1..Len(windZones) : InZone(p, Items(Level, "windZones")[i])}

\* C11: while the player is in a pulsed zone of pulse duration p (and in no
\* other zone), the zone's force is the player's acceleration after a tick
\* exactly when (pulseTimer mod 2p) < p; after a tick of the other half of
\* the cycle no force of the zone acts on the player.
C11_PulsedDutyCycle ==
    [][(Ticks /\ currentLevelData # Null) =>
          \A i \in ZonesAt(player) :
              LET zone == Items(Level, "windZones")[i]
                  p == Field(zone, "pulseDuration")
              IN  (/\ ZonesAt(player) = {i}
                   /\ Field(zone, "type") = Str("pulsed")
                   /\ Truthy(p))
                  => IF windZones'[i].pulseTimer % (2 * p.v) < p.v
                     THEN /\ player'.ax = Field(zone, "forceX").v
                          /\ player'.ay = Field(zone, "forceY").v
                     ELSE /\ player'.ax = 0
                          /\ player'.ay = 0]_vars

\* what the player reads on the screen
Shown(hint) == IF hint.visible THEN hint.text ELSE ""

\* C12: after a tick at d deaths in a level with the hints h, no hint is
\* shown when d < 3 or h is empty, and otherwise the hint shown is
\* h[min(floor(d / 3) - 1, len(h) - 1)].
C12_HintPolicy ==
    [][(Ticks /\ currentLevelData # Null) =>
          LET h == Items(Level, "hints") IN
          IF deaths < 3 \/ Len(h) = 0
          THEN ~hintText'.visible
          ELSE Shown(hintText') =
                   h[MathMin((deaths \div 3) - 1, Len(h) - 1) + 1].v]_vars

(***************************************************************************)
(* The event bus driven by arbitrary callers.                              *)
(***************************************************************************)
NextBus ==
    \/ \E event \in BusKeys, callback \in Callbacks : on(event, callback)
    \/ \E event \in BusKeys, callback \in Callbacks : off(event, callback)
    \/ \E event \in BusKeys, data \in Payloads : busEmit(event, data)
    \/ \E event \in {Undefined} \cup {Str(k) : k \in BusKeys} : removeAllListeners(event)

SpecBus == Init /\ [][NextBus]_vars

\* the step is a call of the bus operation op
BusCall(op) == nBusOps' = nBusOps + 1 /\ busOp'.op = op

\* the callbacks the bus holds for a key, in order
CallbacksOf(evs, k) == IF k \in DOMAIN evs THEN evs[k] ELSE <<>>

\* C13: emit(key, payload) calls every callback that is registered for key
\* at that moment exactly once (also one registered twice), in the order
\* of registration and with the payload, and calls no other callback; a
\* registration calls nothing, so nothing is replayed to a late callback.
C13_EmitDelivery ==
    /\ [][BusCall("emit") =>
            LET k == busOp'.event.v
                due == {cb \in Callbacks : busRegs[k][cb].n > 0}
            IN  /\ Len(busCalls') = Cardinality(due)
                /\ \A cb \in due : \E i \in 1..Len(busCalls') : busCalls'[i].callback = cb
                /\ \A i \in 1..Len(busCalls') :
                      /\ busCalls'[i].callback \in due
                      /\ busCalls'[i].event = k
                      /\ busCalls'[i].data = busOp'.data
                /\ \A i, j \in 1..Len(busCalls') :
                      i < j => busRegs[k][busCalls'[i].callback].first
                                   < busRegs[k][busCalls'[j].callback].first]_vars
    /\ [][BusCall("on") => busCalls' = <<>>]_vars

\* g, then f twice, were registered for a key, and an emission called g, then f
C13_Witness ==
    /\ busOp.op = "emit"
    /\ Len(busCalls) = 2
    /\ busCalls[1].callback = "g" /\ busCalls[2].callback = "f"
    /\ busRegs[busOp.event.v]["f"].n = 2

\* C14: off(key, cb) removes cb from key and nothing else;
\* removeAllListeners(key) removes the callbacks of key and no others;
\* removeAllListeners() removes all callbacks.
C14_RemovalIsScoped ==
    /\ [][BusCall("off") =>
            \A k \in BusKeys :
                CallbacksOf(busEvents', k) =
                    IF k = busOp'.event.v
                    THEN SetDelete(CallbacksOf(busEvents, k), busOp'.callback)
                    ELSE CallbacksOf(busEvents, k)]_vars
    /\ [][BusCall("removeAllListeners") =>
            \A k \in BusKeys :
                CallbacksOf(busEvents', k) =
                    IF busOp'.event = Undefined \/ busOp'.event = Str(k)
                    THEN <<>>
                    ELSE CallbacksOf(busEvents, k)]_vars

(***************************************************************************)
(* The progress store with subscribers, and a localStorage that may refuse *)
(* a write.  Subscribers only take note of what they are called with.      *)
(***************************************************************************)
Listeners == {"l1", "l2"}

\* the runs the subscribers' sessions complete: time, coins and deaths agree
StoreRuns(levelId) ==
    {data \in CompletionData(levelId) :
        data.timeMs = data.picked /\ data.picked = data.deaths}

StoreSubscribe(listener) ==
    /\ nOps < MaxOps
    /\ nOps' = nOps + 1
    /\ subscribe(listener)
    /\ lastArgs' = [listener |-> listener]
    /\ UNCHANGED <<levelVars, gameVars, busVars, orphans>>

StoreUnsubscribe(listener) ==
    /\ nOps < MaxOps
    /\ nOps' = nOps + 1
    /\ unsubscribe(listener)
    /\ lastArgs' = [listener |-> listener]
    /\ UNCHANGED <<levelVars, gameVars, busVars, orphans>>

StoreCompleteLevel(levelId, data, saveOk) ==
    /\ nOps < MaxOps
    /\ nOps' = nOps + 1
    /\ completeLevel(levelId, data, saveOk)
    /\ lastArgs' = [levelId |-> levelId, data |-> data, saveOk |-> saveOk]
    /\ UNCHANGED <<levelVars, gameVars, busVars, orphans>>

StoreUpdateLevelProgress(levelId, progress, saveOk) ==
    /\ nOps < MaxOps
    /\ nOps' = nOps + 1
    /\ updateLevelProgress(levelId, progress, saveOk)
    /\ lastArgs' = [levelId |-> levelId, progress |-> progress, saveOk |-> saveOk]
    /\ UNCHANGED <<levelVars, gameVars, busVars, orphans>>

StoreResetProgress(saveOk) ==
    /\ nOps < MaxOps
    /\ nOps' = nOps + 1
    /\ resetProgress(saveOk)
    /\ lastArgs' = [saveOk |-> saveOk]
    /\ UNCHANGED <<levelVars, gameVars, busVars, orphans>>

NextStore ==
    \/ \E listener \in Listeners : StoreSubscribe(listener)
    \/ \E listener \in Listeners : StoreUnsubscribe(listener)
    \/ \E levelId \in StoreIds, saveOk \in BOOLEAN :
          \E data \in StoreRuns(levelId) : StoreCompleteLevel(levelId, data, saveOk)
    \/ \E levelId \in StoreIds, progress \in Partials, saveOk \in BOOLEAN :
          StoreUpdateLevelProgress(levelId, progress, saveOk)
    \/ \E saveOk \in BOOLEAN : StoreResetProgress(saveOk)

SpecStore == Init /\ [][NextStore]_vars

\* getLevelProgress(levelId) on the state st
ProgressIn(st, levelId) ==
    IF OMapHas(st.levelProgress, levelId)
    THEN OMapGet(st.levelProgress, levelId)
    ELSE Undefined

\* the step is a call of the store operation op
StoreCall(op) == nOps' = nOps + 1 /\ lastOp' = op

Mutations == {"updateLevelProgress", "completeLevel", "resetProgress"}

Subscribed(ls) == {ls[i] : i \in 1..Len(ls)}

\* every listener subscribed before the step is called once in it, with the
\* state the step leaves, and nobody else is called
EachNotifiedOnce ==
    /\ \A l \in Subscribed(listeners) :
          Cardinality({i \in 1..Len(notified') : notified'[i].listener = l}) = 1
    /\ \A i \in 1..Len(notified') :
          /\ notified'[i].listener \in Subscribed(listeners)
          /\ notified'[i].state = state'

\* C15: updateLevelProgress, completeLevel and resetProgress call every
\* subscribed listener exactly once, within the call, after the mutation and
\* with the full state it left; subscribe adds the listener, the function it
\* returns takes it out, so that it is not called again.
C15_ListenersNotified ==
    /\ [][(\E op \in Mutations : StoreCall(op)) => EachNotifiedOnce]_vars
    /\ [][StoreCall("subscribe") =>
            /\ Subscribed(listeners') = Subscribed(listeners) \cup {lastArgs'.listener}
            /\ notified' = <<>>]_vars
    /\ [][StoreCall("unsubscribe") =>
            /\ Subscribed(listeners') = Subscribed(listeners) \ {lastArgs'.listener}
            /\ notified' = <<>>]_vars

\* both listeners were subscribed and a mutation called one after the other
C15_Witness ==
    /\ lastOp \in Mutations
    /\ Len(notified) = 2
    /\ notified[1].listener # notified[2].listener
    /\ notified[1].state = state
    /\ state # InitialState

\* C17: updateLevelProgress(id, partial) leaves under id the previous record
\* (or, when there was none, the record with completed false, bestTimeMs
\* null, bestCollectibles 0 and totalDeaths 0) with exactly the supplied
\* fields overwritten; the records of the other ids and the two lifetime
\* totals stay as they were.
C17_UpdateMerges ==
    [][StoreCall("updateLevelProgress") =>
          LET id == lastArgs'.levelId
              progress == lastArgs'.progress
              before == IF ProgressIn(state, id) = Undefined
                        THEN [levelId |-> id, completed |-> FALSE, bestTimeMs |-> Null,
                              bestCollectibles |-> 0, totalDeaths |-> 0]
                        ELSE ProgressIn(state, id)
          IN  /\ DOMAIN ProgressIn(state', id) = DOMAIN before
              /\ \A f \in DOMAIN before :
                    ProgressIn(state', id)[f] =
                        IF f \in DOMAIN progress THEN progress[f] ELSE before[f]
              /\ \A other \in StoreIds \ {id} :
                    getLevelProgress(other)' = getLevelProgress(other)
              /\ getTotalCoinsCollected' = getTotalCoinsCollected
              /\ getTotalDeaths' = getTotalDeaths]_vars

\* a completed level with a death gets its best time set by an update, while
\* another level has a record as well
C17_Witness ==
    /\ lastOp = "updateLevelProgress"
    /\ "progress" \in DOMAIN lastArgs
    /\ lastArgs.progress = [bestTimeMs |-> Num(1)]
    /\ hist[lastArgs.levelId].n = 1
    /\ getLevelProgress(lastArgs.levelId) =
           [levelId |-> lastArgs.levelId, completed |-> TRUE, bestTimeMs |-> Num(1),
            bestCollectibles |-> 1, totalDeaths |-> 1]
    /\ \E other \in StoreIds \ {lastArgs.levelId} : getLevelProgress(other) # Undefined

\* C18: when localStorage refuses the write of a mutation, the mutation is
\* applied to the state in memory all the same, the listeners are called
\* all the same, and the call throws nothing.
C18_SaveFailureIsSwallowed ==
    [][((\E op \in Mutations : StoreCall(op)) /\ ~lastArgs'.saveOk) =>
          /\ thrown' = NoError
          /\ storage' = storage
          /\ EachNotifiedOnce
          /\ lastOp' = "resetProgress" =>
                /\ Len(getAllProgress') = 0
                /\ getTotalCoinsCollected' = 0
                /\ getTotalDeaths' = 0
          /\ lastOp' = "completeLevel" =>
                /\ ProgressIn(state', lastArgs'.levelId).completed
                /\ getTotalCoinsCollected' = getTotalCoinsCollected + lastArgs'.data.picked
                /\ getTotalDeaths' = getTotalDeaths + lastArgs'.data.deaths
          /\ lastOp' = "updateLevelProgress" =>
                \A f \in DOMAIN lastArgs'.progress :
                    ProgressIn(state', lastArgs'.levelId)[f] = lastArgs'.progress[f]]_vars

\* a refused write after an accepted one: the item is behind the state, and
\* the subscribed listener has been called with the state
C18_Witness ==
    /\ lastOp = "completeLevel"
    /\ ~lastArgs.saveOk
    /\ storage # Null
    /\ storage # Stringify(state)
    /\ Len(notified) = 1
    /\ notified[1].state = state
    /\ thrown = NoError

(***************************************************************************)
(* The progress store and a caller that edits what getAllProgress returns. *)
(***************************************************************************)
\* const all = gameState.getAllProgress(), then an edit of `all` under levelId
CallerEditsCopy(levelId, edit) ==
    /\ nOps < MaxOps
    /\ nOps' = nOps + 1
    /\ state' = StateAfterEdit(state, getAllProgress, levelId, edit)
    /\ lastOp' = "getAllProgress"
    /\ lastArgs' = [levelId |-> levelId, edit |-> edit]
    /\ notified' = <<>>
    /\ thrown' = NoError
    /\ UNCHANGED <<storage, hist, listeners>>
    /\ UNCHANGED <<levelVars, gameVars, busVars, orphans>>

NextCopy ==
    \/ CallCompleteLevel({TRUE})
    \/ \E levelId \in StoreIds, edit \in CopyEdits : CallerEditsCopy(levelId, edit)

SpecCopy == Init /\ [][NextCopy]_vars

\* C16: whatever a caller does to the mapping getAllProgress returned, or to
\* a record reachable from it, the getters of the store return afterwards
\* what they returned before.
C16_CopyIsDefensive ==
    [][StoreCall("getAllProgress") =>
          /\ getTotalCoinsCollected' = getTotalCoinsCollected
          /\ getTotalDeaths' = getTotalDeaths
          /\ \A id \in StoreIds :
                /\ getLevelProgress(id)' = getLevelProgress(id)
                /\ isLevelCompleted(id)' = isLevelCompleted(id)
                /\ getBestTime(id)' = getBestTime(id)
                /\ getBestCollectibles(id)' = getBestCollectibles(id)]_vars

(***************************************************************************)
(* Page loads.  The item of the store's key is whatever the last writer    *)
(* left: this application, an older version of it, or the user.            *)
(***************************************************************************)
SavedRecord ==
    ProgressToJson([levelId |-> "wind_01", completed |-> TRUE, bestTimeMs |-> Num(1),
                    bestCollectibles |-> 1, totalDeaths |-> 1])

\* values found under levelProgress: none, a list without entries, a list
\* with a saved entry; then a number, a text, an object, lists whose
\* elements are a number, a one-element list and an object
StoredProgress ==
    <<Undefined, Arr(<<>>), Arr(<<Arr(<<Str("wind_01"), SavedRecord>>)>>),
      Num(5), Str("ab"), Obj(EmptyMap), Arr(<<Num(1)>>),
      Arr(<<Arr(<<Str("wind_01")>>)>>), Arr(<<Obj(EmptyMap)>>)>>

\* values found under a total
StoredTotals == <<Num(0), Num(1), Undefined, Null, Str("abc"), Bool(TRUE)>>

StoredItem(lp, picked, died) ==
    Str(Obj([levelProgress |-> lp, totalCoinsCollected |-> picked, totalDeaths |-> died]))

\* localStorage.setItem / removeItem by whoever writes the item
StorageWrite(item) ==
    /\ storage' = item
    /\ lastOp' = "setItem"
    /\ UNCHANGED <<state, hist, nOps, listeners, notified, thrown, lastArgs>>
    /\ UNCHANGED <<levelVars, gameVars, busVars, orphans>>

\* the page is loaded: the module runs `new GameStateManager()`
constructor ==
    /\ state' = loadFromStorage(storage)
    /\ listeners' = <<>>
    /\ notified' = <<>>
    /\ thrown' = NoError
    /\ lastOp' = "constructor"
    /\ hist' = [id \in DOMAIN hist |-> NoHistory]
    /\ UNCHANGED <<storage, nOps, lastArgs>>
    /\ UNCHANGED <<levelVars, gameVars, busVars, orphans>>

\* the items found under STORAGE_KEY: none, text that is not JSON, JSON that
\* is no object, and objects with the three keys
StoredItems ==
    {Null, Unparsable, Str(Null), Str(Num(5)), Str(Arr(<<>>))}
    \cup {StoredItem(StoredProgress[i], StoredTotals[j], StoredTotals[k]) :
             i \in 1..Len(StoredProgress), j \in 1..Len(StoredTotals),
             k \in 1..Len(StoredTotals)}

NextBoot ==
    \/ \E item \in StoredItems : StorageWrite(item)
    \/ constructor

SpecBoot == Init /\ [][NextBoot]_vars

IsListOfPairs(x) ==
    /\ x.t = "array"
    /\ \A i \in 1..Len(x.v) : x.v[i].t = "array" /\ Len(x.v[i].v) = 2

\* the item is missing, is not JSON, has a levelProgress that is not a list
\* of pairs or a total that is not a number
Malformed(stored) ==
    \/ stored = Null
    \/ stored = Unparsable
    \/ ~IsListOfPairs(Field(JsonParse(stored), "levelProgress"))
    \/ Field(JsonParse(stored), "totalCoinsCollected").t # "number"
    \/ Field(JsonParse(stored), "totalDeaths").t # "number"

\* C19: the constructor never fails, and from a missing or malformed item
\* (unparsable text, a levelProgress that is not a list of pairs, totals
\* that are not numbers) it leaves the empty state: no selection, no
\* progress, both totals 0.
C19_MalformedLoadsEmpty ==
    (lastOp = "constructor" /\ Malformed(storage)) =>
        /\ thrown = NoError
        /\ getSelectedLevel = NoLevel
        /\ state = StateOf(LoadPayload(storage))
        /\ LoadPayload(storage) = EmptyPayload

(***************************************************************************)
(* Sessions that do not start.                                             *)
(***************************************************************************)
\* create() of the running scene found no selection, or its load cannot
\* resolve: the import failed or the document is not a valid level
StartFails ==
    /\ createPc \in {"await", "returned"}
    /\ \/ NoSelection(sceneLevelId)
       \/ /\ loadCall \in 1..Len(loads)
          /\ \/ loads[loadCall].status = "rejected"
             \/ loads[loadCall].id \notin DOMAIN LevelFiles
             \/ ~validateLevelData(LevelFiles[loads[loadCall].id])

\* C20: in a session whose scene finds no level selected or whose load is
\* rejected, level-started is never emitted, no tick changes the player, the
\* jump flag, the wind zones or the hint, no collectible-picked, player-died
\* or level-completed is emitted and the progress store is not written.
C20_NoPartialSession ==
    /\ [](StartFails =>
            /\ currentLevelData = Null
            /\ \A k \in EventKeys : events[k].n = 0
            /\ contacts = {})
    /\ [][(StartFails /\ screen' = screen) =>
            /\ StartFails'
            /\ player' = player
            /\ canJump' = canJump
            /\ windZones' = windZones
            /\ hintText' = hintText
            /\ coinCount' = coinCount
            /\ deaths' = deaths
            /\ events' = events
            /\ state' = state
            /\ storage' = storage]_vars

\* frames have run, the last of them to its end, in a session whose level
\* document was fetched and rejected by the validation
C20_Witness ==
    /\ createPc = "returned"
    /\ loadCall \in 1..Len(loads)
    /\ loads[loadCall].status = "rejected"
    /\ loads[loadCall].fetch = "ok"
    /\ now >= 2 * TickMs
    /\ stage = "world"
    /\ player = NoPlayer

(***************************************************************************)
(* The level store asked for the documents that differ in their wind zones *)
(* and collectibles.                                                       *)
(***************************************************************************)
SchemaIds == {"wind_02", "wind_05", "wind_06", "wind_07", "wind_08", "wind_09"}

NextSchema ==
    \/ \E levelId \in SchemaIds : loadLevel(levelId)
    \/ \E c \in 1..Len(loads), fetchOk \in BOOLEAN : loadLevelResume(c, fetchOk)
    \/ clearLevelCache

SpecSchema == Init /\ [][NextSchema]_vars

\* the wind zones of the document ./wind/<id>.json
ZonesOf(id) == Field(LevelFiles[id], "windZones").v

IsConstant(zone) == Field(zone, "type") = Str("constant")

IsPulsed(zone) == Field(zone, "type") = Str("pulsed")

HasPulseDuration(zone) == Field(zone, "pulseDuration").t = "number"

\* no zone is pulsed without a numeric pulseDuration, none has another type
ZonesWellTyped(id) ==
    \A i \in 1..Len(ZonesOf(id)) :
        LET zone == ZonesOf(id)[i] IN
        \/ IsConstant(zone)
        \/ IsPulsed(zone) /\ HasPulseDuration(zone)

\* C21: a load whose document was imported resolves when every wind zone is
\* constant (with or without pulseDuration) or pulsed with a numeric
\* pulseDuration; it rejects when a pulsed zone lacks a numeric pulseDuration
\* or a zone has another type, and such a level is never in the cache and
\* never the value of a load.
C21_ZoneValidation ==
    \A c \in Calls :
        LET id == loads[c].id IN
        (id \in SchemaIds \ {"wind_09"}) =>
            /\ (loads[c].fetch = "ok" /\ ZonesWellTyped(id)) => loads[c].status = "resolved"
            /\ ~ZonesWellTyped(id) =>
                  /\ loads[c].status # "resolved"
                  /\ loads[c].value = Undefined
                  /\ getCachedLevel(id) = Undefined
                  /\ resolved[id] = Undefined

\* the level with constant zones with and without pulseDuration is loaded
\* and cached, a level with a zone of another type and one with a pulsed zone
\* without numeric pulseDuration were imported and rejected
C21_Witness ==
    \E a, b, c \in Calls :
        /\ loads[a].id = "wind_05" /\ loads[a].status = "resolved"
        /\ getCachedLevel("wind_05") = ModuleDefault("wind_05")
        /\ \E i, j \in 1..Len(ZonesOf("wind_05")) :
              /\ IsConstant(ZonesOf("wind_05")[i]) /\ HasPulseDuration(ZonesOf("wind_05")[i])
              /\ IsConstant(ZonesOf("wind_05")[j]) /\ ~HasPulseDuration(ZonesOf("wind_05")[j])
        /\ loads[b].id = "wind_06" /\ loads[b].status = "rejected" /\ loads[b].fetch = "ok"
        /\ loads[c].id = "wind_07" /\ loads[c].status = "rejected" /\ loads[c].fetch = "ok"

(***************************************************************************)
(* The player's movement.                                                  *)
(***************************************************************************)
\* update() runs on the scene
Updates == Ticks /\ screen' = screen

\* C22: a tick jumps only with jump held, the player grounded and canJump
\* true; the jump sets the vertical velocity to JUMP_VELOCITY and clears
\* canJump, and a tick that does not jump leaves the vertical velocity; and
\* while the scene runs canJump goes from false to true only on a tick with
\* jump released and the player grounded.
C22_JumpGuard ==
    /\ [][(Updates /\ tick'.jumped) =>
            /\ tick'.up /\ tick'.onGround /\ player.touchingDown /\ canJump
            /\ player'.vy = JUMP_VELOCITY
            /\ ~canJump']_vars
    /\ [][(Updates /\ currentLevelData # Null /\ ~tick'.jumped) =>
            player'.vy = player.vy]_vars
    /\ [][(~canJump /\ canJump' /\ screen' = screen) =>
            /\ Updates
            /\ ~tick'.up
            /\ tick'.onGround /\ player.touchingDown]_vars

\* a tick has jumped
C22_Witness ==
    /\ tick.jumped /\ tick.up /\ tick.onGround
    /\ ~canJump
    /\ player # NoPlayer
    /\ player.vy = JUMP_VELOCITY
    /\ stage = "world"

(***************************************************************************)
(* Ticks of a level in play, with the keys of the last update() kept.      *)
(***************************************************************************)
Keys(left, right, up) == [left |-> left, right |-> right, up |-> up]

updateWithKeys(left, right, up) ==
    /\ updateScene(left, right, up)
    /\ lastArgs' = Keys(left, right, up)
    /\ UNCHANGED <<state, storage, hist, lastOp, nOps, listeners, notified, thrown>>

NextMove ==
    \/ \E delta \in FrameDeltas : Step(delta)
    \/ \E left, right, up \in BOOLEAN : updateWithKeys(left, right, up)
    \/ \E c \in 1..Len(coins) : collectCoin(c)
    \/ \E h \in {o.i : o \in contacts} : hitHazard(h)
    \/ \E saveOk \in BOOLEAN : reachGoal(saveOk)

SpecMove == InitTick /\ [][NextMove]_vars

\* update() has just run on the mounted level
Moved == stage = "world" /\ lastArgs # NoArgs /\ currentLevelData # Null

\* C23: right after update() the horizontal velocity is -PLAYER_SPEED,
\* PLAYER_SPEED or 0 and follows from the keys of that tick alone: only left
\* gives -PLAYER_SPEED, only right gives PLAYER_SPEED, neither gives 0,
\* whatever the velocity was before.
C23_VelocityFromKeys ==
    Moved =>
        /\ player.vx \in {-PLAYER_SPEED, PLAYER_SPEED, 0}
        /\ (lastArgs.left /\ ~lastArgs.right) => player.vx = -PLAYER_SPEED
        /\ (lastArgs.right /\ ~lastArgs.left) => player.vx = PLAYER_SPEED
        /\ (~lastArgs.left /\ ~lastArgs.right) => player.vx = 0

\* the keys were released in a wind zone, where the world step had changed
\* the velocity: the tick leaves 0
C23_Witness ==
    /\ Moved
    /\ ~lastArgs.left /\ ~lastArgs.right
    /\ player.vx = 0
    /\ player.ax # 0

\* C24: with left and right both held, update() leaves the velocity of the
\* branch that is evaluated on such a tick, the left one: -PLAYER_SPEED; the
\* right key does not override the left key.
C24_BothHeld ==
    (Moved /\ lastArgs.left /\ lastArgs.right) =>
        /\ player.vx = -PLAYER_SPEED
        /\ player.vx # PLAYER_SPEED

\* both keys held on a tick, the player moving left in the second column
C24_Witness ==
    /\ Moved
    /\ lastArgs.left /\ lastArgs.right
    /\ player.vx = -PLAYER_SPEED
    /\ player.x >= 1

(***************************************************************************)
(* Wind.                                                                   *)
(***************************************************************************)
\* the zones holding p whose force is applied by the tick that leaves the
\* timers zs: the constant ones, and the pulsed ones in the first half of
\* their cycle
Blowing(p, zs) ==
    {i \in ZonesAt(p) :
        LET zone == Items(Level, "windZones")[i] IN
        \/ Field(zone, "type") = Str("constant")
        \/ /\ Field(zone, "type") = Str("pulsed")
           /\ Truthy(Field(zone, "pulseDuration"))
           /\ zs[i].pulseTimer % (2 * Field(zone, "pulseDuration").v)
                  < Field(zone, "pulseDuration").v}

Last(set) == CHOOSE i \in set : \A j \in set : j <= i

ForceOf(i) ==
    [ax |-> Field(Items(Level, "windZones")[i], "forceX").v,
     ay |-> Field(Items(Level, "windZones")[i], "forceY").v]

\* C25: after a tick with the player's centre in several wind zones, the
\* acceleration is the force of the last zone, in the order of the level
\* document, that holds the player and is active; the forces of the zones
\* before it are overwritten, not added.
C25_LastZoneWins ==
    [][(Updates /\ currentLevelData # Null
          /\ Cardinality(ZonesAt(player)) >= 2
          /\ Blowing(player, windZones') # {}) =>
          /\ player'.ax = ForceOf(Last(Blowing(player, windZones'))).ax
          /\ player'.ay = ForceOf(Last(Blowing(player, windZones'))).ay]_vars

\* two zones that blow hold the player after a tick; their forces differ in
\* both components and the acceleration is the force of the second
C25_Witness ==
    /\ stage = "world"
    /\ currentLevelData # Null
    /\ tick # NoTick
    /\ Cardinality(Blowing(player, windZones)) >= 2
    /\ \E i \in Blowing(player, windZones) :
          /\ i < Last(Blowing(player, windZones))
          /\ ForceOf(i).ax # ForceOf(Last(Blowing(player, windZones))).ax
          /\ ForceOf(i).ay # ForceOf(Last(Blowing(player, windZones))).ay
    /\ player.ax = ForceOf(Last(Blowing(player, windZones))).ax
    /\ player.ay = ForceOf(Last(Blowing(player, windZones))).ay

\* C26: after a tick with the player's centre in no wind zone (the tick
\* after leaving a zone, the tick after a respawn outside every zone) the
\* player's acceleration is zero.
C26_NoWindOutsideZones ==
    [][(Updates /\ currentLevelData # Null /\ ZonesAt(player) = {}) =>
          /\ player'.ax = 0
          /\ player'.ay = 0]_vars

\* C27: the pulse timer of every pulsed zone of pulse duration p stays in
\* 0 .. 2p - 1, whatever the frame durations.
C27_PulseTimerWraps ==
    currentLevelData # Null =>
        \A i \in 1..Len(windZones) :
            LET zone == Items(Level, "windZones")[i] IN
            (Field(zone, "type") = Str("pulsed") /\ Truthy(Field(zone, "pulseDuration"))) =>
                /\ 0 <= windZones[i].pulseTimer
                /\ windZones[i].pulseTimer < 2 * Field(zone, "pulseDuration").v

(***************************************************************************)
(* Collectible ids.                                                        *)
(***************************************************************************)
\* the collectibles of a level document
CollectiblesOf(doc) == Field(doc, "collectibles").v

DistinctIds(doc) ==
    \A i, j \in 1..Len(CollectiblesOf(doc)) :
        Field(CollectiblesOf(doc)[i], "id") = Field(CollectiblesOf(doc)[j], "id") => i = j

\* C28: the collectible ids of every level a load resolves with are pairwise
\* distinct, and so are those of every cached level: a document with two
\* collectibles of one id is rejected.
C28_CollectibleIdsUnique ==
    /\ \A c \in Calls :
          loads[c].status = "resolved" => DistinctIds(Deref(loads[c].value))
    /\ \A id \in DOMAIN levelCache : DistinctIds(Deref(levelCache[id]))

(***************************************************************************)
(* Sessions abandoned while their level is loading.  The cleanup of the    *)
(* PhaserGame effect calls game.destroy(true), which Phaser carries out at *)
(* the next step of the game; create() of the scene stays suspended at its *)
(* await and goes on when the promise settles.  Its calls on the scene     *)
(* succeed while Phaser has not yet destroyed the game; whether they throw *)
(* afterwards is left open.                                                *)
(***************************************************************************)
\* App.handleBackToMenu and the cleanup of the PhaserGame effect while
\* create() awaits loadLevel
handleBackToMenuWhileLoading ==
    /\ screen = "playing"
    /\ createPc = "await"
    /\ loads[loadCall].status = "pending"
    /\ orphans' = orphans \cup {[call |-> loadCall, levelId |-> sceneLevelId]}
    /\ screen' = "menu"
    /\ createPc' = "off"
    /\ NewMainScene
    /\ UNCHANGED <<session, now>>
    /\ UNCHANGED <<levelVars, storeVars, busVars>>

\* create() of a destroyed game from the settled promise on: it returns in
\* the catch block, or runs to EventBus.emit('level-started') unless a call
\* on the scene throws before
createResumeAbandoned(o, throws) ==
    /\ o \in orphans
    /\ loads[o.call].status # "pending"
    /\ orphans' = orphans \ {o}
    /\ IF loads[o.call].status = "rejected" \/ throws
       THEN UNCHANGED events
       ELSE LET doc == Deref(loads[o.call].value) IN
            events' = emit(events, "level-started",
                           [id |-> o.levelId, name |-> Field(doc, "name").v,
                            totalCollectibles |-> Len(Items(doc, "collectibles"))])
    /\ UNCHANGED <<loopVars, sceneVars, session, tick>>
    /\ UNCHANGED <<levelVars, storeVars, busVars>>

NextAbandon ==
    \/ \E id \in LevelIds : handleLevelSelected(id)
    \/ handleBackToMenu
    \/ handleBackToMenuWhileLoading
    \/ create
    \/ \E c \in 1..Len(loads), fetchOk \in BOOLEAN : loadLevelResume(c, fetchOk)
    \/ createResume
    \/ \E o \in orphans, throws \in BOOLEAN : createResumeAbandoned(o, throws)
    \/ PlayStep

SpecAbandon == Init /\ [][NextAbandon]_vars

\* C29: when the load of an abandoned session settles, the rest of its
\* create() emits neither level-started nor any other event on the bus and
\* writes nothing to the progress store; only the level cache may change.
C29_LateResolutionIsSilent ==
    [][(orphans' # orphans /\ orphans' \subseteq orphans) =>
          /\ events' = events
          /\ state' = state
          /\ storage' = storage]_vars

(***************************************************************************)
(* The event bus with callbacks that use the bus.  A callback called by    *)
(* emit may call on or off for the key being emitted.  emit iterates the   *)
(* Set of the key itself with Set.prototype.forEach: an entry deleted      *)
(* before its turn is not visited, an entry added during the iteration is  *)
(* visited at the end.                                                     *)
(***************************************************************************)
\* what a callback does when called: nothing, on(key, cb) or off(key, cb)
Reentries ==
    {[op |-> "none", callback |-> ""]}
    \cup {[op |-> o, callback |-> cb] : o \in {"on", "off"}, cb \in Callbacks}

\* the slot of a deleted entry of the Set
Deleted == "#deleted"

LiveOf(slots) == SelectSeq(slots, LAMBDA cb : cb # Deleted)

\* callbacks.forEach((callback) => callback(data)) from slot i on
RECURSIVE ForEachLive(_, _, _, _, _, _)
ForEachLive(i, slots, does, event, data, calls) ==
    IF i > Len(slots)
    THEN [callbacks |-> LiveOf(slots), calls |-> calls]
    ELSE IF slots[i] = Deleted
    THEN ForEachLive(i + 1, slots, does, event, data, calls)
    ELSE LET cb == slots[i]
             act == does[cb]
             after ==
                 CASE act.op = "on" ->
                        IF \E j \in 1..Len(slots) : slots[j] = act.callback
                        THEN slots ELSE Append(slots, act.callback)
                   [] act.op = "off" ->
                        [j \in 1..Len(slots) |->
                            IF slots[j] = act.callback THEN Deleted ELSE slots[j]]
                   [] OTHER -> slots
         IN  ForEachLive(i + 1, after, does, event, data,
                         Append(calls, [callback |-> cb, event |-> event, data |-> data]))

\* a caller's EventBus.emit(event, data) with callbacks that act as `does` says
busEmitReentrant(event, data, does) ==
    /\ nBusOps < MaxBusOps
    /\ nBusOps' = nBusOps + 1
    /\ IF event \in DOMAIN busEvents
       THEN LET r == ForEachLive(1, busEvents[event], does, event, data, <<>>) IN
            /\ busCalls' = r.calls
            /\ busEvents' = [busEvents EXCEPT ![event] = r.callbacks]
       ELSE /\ busCalls' = <<>>
            /\ UNCHANGED busEvents
    /\ busRegs' = [k \in BusKeys |-> [cb \in Callbacks |->
                      IF ~Registered(busEvents', k, cb) THEN NoReg
                      ELSE IF Registered(busEvents, k, cb) THEN busRegs[k][cb]
                      ELSE [n |-> 1, first |-> nBusOps']]]
    /\ busOp' = BusOp("emit", Str(event), "", data)
    /\ UNCHANGED <<levelVars, storeVars, gameVars, orphans>>

NextReentrant ==
    \/ \E event \in BusKeys, callback \in Callbacks : on(event, callback)
    \/ \E event \in BusKeys, callback \in Callbacks : off(event, callback)
    \/ \E event \in BusKeys, does \in [Callbacks -> Reentries] :
          busEmitReentrant(event, [deaths |-> 1], does)

SpecReentrant == Init /\ [][NextReentrant]_vars

\* C30: whatever the callbacks called by an emit register or remove for
\* its key, the emit calls exactly the callbacks that were registered for
\* the key when it was called, each once, in their order.
C30_EmitSnapshot ==
    [][BusCall("emit") =>
          LET due == CallbacksOf(busEvents, busOp'.event.v) IN
          /\ Len(busCalls') = Len(due)
          /\ \A i \in 1..Len(due) : busCalls'[i].callback = due[i]]_vars

(***************************************************************************)
(* The start of a session.  create() is suspended at its await while the   *)
(* level loads; the game loop goes on calling update(), which returns at   *)
(* its first line.  From the settled promise on create() runs in one piece *)
(* to EventBus.emit('level-started').                                      *)
(***************************************************************************)
LevelStarted == events["level-started"].n > 0

\* the level of the scene is mounted: a sprite per collectible, a timer per
\* wind zone, and the player
Mounted ==
    /\ currentLevelData # Null
    /\ Len(coins) = Len(Items(Level, "collectibles"))
    /\ Len(windZones) = Len(Items(Level, "windZones"))
    /\ player # NoPlayer

\* C31: in every session update() changes nothing until the load of the
\* level has resolved; level-started is emitted at most once, by the step
\* of create() that follows the resolved load and mounts the level, with
\* coin count 0, death count 0 and every pulse timer 0; and no
\* collectible-picked, player-died or level-completed is emitted before it.
C31_LevelStartedFirst ==
    /\ [](events["level-started"].n <= 1)
    /\ [](LevelStarted <=> createPc = "done")
    /\ [](\A k \in EventKeys : events[k].n > 0 => LevelStarted)
    /\ [][(Updates /\ ~LevelStarted) =>
             /\ sceneVars' = sceneVars
             /\ events' = events
             /\ state' = state
             /\ storage' = storage]_vars
    /\ [][(LevelStarted' /\ ~LevelStarted) =>
             /\ createPc = "await"
             /\ loads[loadCall].status = "resolved"
             /\ currentLevelData' = loads[loadCall].value
             /\ Mounted'
             /\ coinCount' = 0
             /\ deaths' = 0
             /\ \A i \in 1..Len(windZones') : windZones'[i].pulseTimer = 0
             /\ \A k \in EventKeys \ {"level-started"} : events'[k].n = 0]_vars

\* wind_02, with its two wind zones, was started after frames had gone by
\* during its load, and the session has emitted another event since
C31_Witness ==
    /\ sceneLevelId = "wind_02"
    /\ LevelStarted
    /\ startTime > TickMs
    /\ Len(windZones) = 2
    /\ \E k \in EventKeys \ {"level-started"} : events[k].n > 0

(***************************************************************************)
(* Callbacks of level-completed that read the progress store.  reachGoal   *)
(* calls gameState.completeLevel and then EventBus.emit, which calls the   *)
(* callbacks before it returns; a callback that asks the store finds it as *)
(* it is at the emit.  The store starts from what an earlier visit left in *)
(* localStorage, or from nothing.                                          *)
(***************************************************************************)
GoalIds == {"wind_01"}

\* an earlier run of wind_01, as it was saved
PriorRun == [id |-> "wind_01", timeMs |-> 3 * TickMs, picked |-> 1, deaths |-> 1]

PriorItems == {Null, Stringify(CompleteLevelState(InitialState, "wind_01", PriorRun))}

InitGoal ==
    /\ InitLevels
    /\ storage \in PriorItems
    /\ state = loadFromStorage(storage)
    /\ hist = [id \in StoreIds |-> NoHistory]
    /\ lastOp = "constructor"
    /\ nOps = 0
    /\ listeners = <<>>
    /\ notified = <<>>
    /\ thrown = NoError
    /\ lastArgs = NoArgs
    /\ InitGame
    /\ InitBus

\* faulty variant: the event is emitted before the store is updated
StoreAtEmit_EmitFirst(before, after) == before

\* reachGoal, lines 329-343: the store the callbacks of level-completed
\* find is the one completeLevel has left
StoreAtEmit(before, after) == after

\* the calls of an emit, each with the store its callback finds
Finding(calls, st) == [i \in 1..Len(calls) |-> calls[i] @@ [found |-> st]]

\* a component registers a callback for level-completed when the game is
\* put on the screen
listen(callback) ==
    /\ screen = "playing"
    /\ createPc = "start"
    /\ ~Registered(busEvents, "level-completed", callback)
    /\ on("level-completed", callback)

\* reachGoal with the callbacks that EventBus.emit('level-completed') calls
reachGoalHeard(saveOk) ==
    /\ reachGoalScene(saveOk)
    /\ IF currentLevelData = Null \/ NoSelection(sceneLevelId)
       THEN UNCHANGED busVars
       ELSE LET data == GoalData(sceneLevelId, now, startTime, coinCount, deaths) IN
            /\ busCalls' = Finding(EmitCalls(busEvents, "level-completed", data),
                                   StoreAtEmit(state, state'))
            /\ busOp' = BusOp("emit", Str("level-completed"), "", data)
            /\ nBusOps' = nBusOps + 1
            /\ UNCHANGED <<busEvents, busRegs>>

NextGoal ==
    \/ \E id \in GoalIds : handleLevelSelected(id)
    \/ \E callback \in Callbacks : listen(callback)
    \/ handleBackToMenu
    \/ create
    \/ \E c \in 1..Len(loads), fetchOk \in BOOLEAN : loadLevelResume(c, fetchOk)
    \/ createResume
    \/ \E delta \in FrameDeltas : Step(delta)
    \/ \E left, right, up \in BOOLEAN : update(left, right, up)
    \/ \E c \in 1..Len(coins) : collectCoin(c)
    \/ \E h \in {o.i : o \in contacts} : hitHazard(h)
    \/ \E saveOk \in BOOLEAN : reachGoalHeard(saveOk)

SpecGoal == InitGoal /\ [][NextGoal]_vars

\* the step emits level-completed
Completes == events'["level-completed"].n > events["level-completed"].n

\* C32: every callback that the emit of level-completed calls finds the
\* store already updated: the level of the payload is completed, its best
\* time is the payload's time or the smaller earlier best, its best
\* collectibles the larger of the earlier best and the payload's count, and
\* its deaths the earlier deaths plus the payload's.
C32_StoreBeforeEvent ==
    [][Completes =>
          LET data == events'["level-completed"].last
              before == CurrentProgress(state, data.id)
          IN  /\ Len(busCalls') = Len(CallbacksOf(busEvents, "level-completed"))
              /\ \A i \in 1..Len(busCalls') :
                    LET rec == ProgressIn(busCalls'[i].found, data.id) IN
                    /\ busCalls'[i].data = data
                    /\ rec # Undefined
                    /\ rec.completed
                    /\ rec.bestTimeMs =
                          IF before.bestTimeMs = Null
                          THEN Num(data.timeMs)
                          ELSE Num(MathMin(before.bestTimeMs.v, data.timeMs))
                    /\ rec.bestCollectibles =
                          MathMax(before.bestCollectibles, data.picked)
                    /\ rec.totalDeaths = before.totalDeaths + data.deaths
                    /\ rec = ProgressIn(state', data.id)]_vars

\* two callbacks were called for a run of wind_01 that was slower than the
\* saved one and picked more coins: the record they find keeps the earlier
\* time and has the new count
C32_Witness ==
    /\ busOp.op = "emit"
    /\ Len(busCalls) = 2
    /\ busCalls[1].data.timeMs > PriorRun.timeMs
    /\ busCalls[1].data.picked > PriorRun.picked
    /\ ProgressIn(busCalls[2].found, "wind_01").bestTimeMs = Num(PriorRun.timeMs)
    /\ ProgressIn(busCalls[2].found, "wind_01").bestCollectibles = busCalls[1].data.picked

(***************************************************************************)
(* The pulse timers, tick by tick, in levels with constant zones, pulsed   *)
(* zones and a pulsed zone whose pulseDuration is 0.                       *)
(***************************************************************************)
PulseLevels == {"wind_02", "wind_04", "wind_10"}

SpecPulse == InitTickOf(PulseLevels) /\ [][PlayStep]_vars

\* zone i of the level is a pulsed one
PulsedAt(i) == Field(Items(Level, "windZones")[i], "type") = Str("pulsed")

\* C33: a tick changes the pulse timer of a pulsed zone only if the player's
\* centre is inside the zone at the tick, and then the timer grows by
\* exactly the time of the frame; the timers of the zones that do not hold
\* the player, and of constant zones, stay as they are.
C33_TimerFrame ==
    [][Updates =>
          \A i \in 1..Len(windZones) :
              windZones'[i].pulseTimer =
                  IF PulsedAt(i) /\ i \in ZonesAt(player)
                  THEN windZones[i].pulseTimer + loopDelta
                  ELSE windZones[i].pulseTimer]_vars

(***************************************************************************)
(* The aggregate totals over histories of completeLevel and resetProgress  *)
(* calls, every save accepted.                                             *)
(***************************************************************************)
NextTotals ==
    \/ CallCompleteLevel({TRUE})
    \/ CallResetProgress({TRUE})

SpecTotals == Init /\ [][NextTotals]_vars

\* the sum of f over the entries of an ordered map from entry i on
RECURSIVE SumFrom(_, _, _)
SumFrom(i, m, f) ==
    IF i > Len(m) THEN 0 ELSE m[i].value[f] + SumFrom(i + 1, m, f)

\* the sum of a field of the histories of the ids in ids
RECURSIVE SumHist(_, _)
SumHist(ids, f) ==
    IF ids = {} THEN 0
    ELSE LET id == CHOOSE x \in ids : TRUE IN hist[id][f] + SumHist(ids \ {id}, f)

\* C34: over completeLevel and resetProgress calls, getTotalDeaths() is the
\* sum of totalDeaths over the level records, and getTotalCoinsCollected()
\* is the sum of picked over the completeLevel calls since the last reset.
C34_TotalsAreSums ==
    /\ getTotalDeaths = SumFrom(1, state.levelProgress, "totalDeaths")
    /\ getTotalCoinsCollected = SumHist(StoreIds, "sumPicked")

\* two levels were completed, one of them twice with a coin each time: the
\* total exceeds the sum of the best counts
C34_Witness ==
    /\ lastOp = "completeLevel"
    /\ Len(state.levelProgress) = 2
    /\ \E id \in StoreIds : hist[id].n >= 2
    /\ getTotalDeaths >= 2
    /\ getTotalCoinsCollected > SumFrom(1, state.levelProgress, "bestCollectibles")

(***************************************************************************)
(* The store across page loads: callers mutate it and select levels, with  *)
(* localStorage accepting or refusing each write, and the page is loaded   *)
(* again, which constructs a new store from the item.                      *)
(***************************************************************************)
CallSetSelectedLevel ==
    /\ nOps < MaxOps
    /\ nOps' = nOps + 1
    /\ \E levelId \in StoreIds : setSelectedLevel(levelId)
    /\ UNCHANGED lastArgs
    /\ UNCHANGED levelVars
    /\ UNCHANGED <<busVars, orphans>>
    /\ UNCHANGED gameVars

NextReload ==
    \/ \E levelId \in StoreIds, saveOk \in BOOLEAN :
          \E data \in StoreRuns(levelId) : StoreCompleteLevel(levelId, data, saveOk)
    \/ \E levelId \in StoreIds, progress \in Partials, saveOk \in BOOLEAN :
          StoreUpdateLevelProgress(levelId, progress, saveOk)
    \/ \E saveOk \in BOOLEAN : StoreResetProgress(saveOk)
    \/ CallSetSelectedLevel
    \/ constructor

SpecReload == Init /\ [][NextReload]_vars

\* the item is the one that a write of the present state leaves
Saved == storage = Stringify(state)

\* store b has the records of store a, key by key in the same order and
\* field by field, and its totals
SameProgress(a, b) ==
    /\ Len(b.levelProgress) = Len(a.levelProgress)
    /\ \A i \in 1..Len(a.levelProgress) :
          /\ b.levelProgress[i].key = a.levelProgress[i].key
          /\ b.levelProgress[i].value = a.levelProgress[i].value
    /\ b.totalCoinsCollected = a.totalCoinsCollected
    /\ b.totalDeaths = a.totalDeaths

\* C35: after a mutation whose write localStorage accepted, and at every
\* page load that finds the item of the present state, the store
\* constructed from the item has the records of the store that saved it,
\* in the same order and with the same field values, and its two totals;
\* its selected level id is null.
C35_RoundTrip ==
    /\ []((lastOp \in Mutations /\ lastArgs.saveOk) =>
             /\ SameProgress(state, loadFromStorage(storage))
             /\ loadFromStorage(storage).selectedLevelId = NoLevel)
    /\ [][(lastOp' = "constructor" /\ Saved) =>
             /\ SameProgress(state, state')
             /\ getSelectedLevel' = NoLevel]_vars

\* the page was loaded again with wind_02 recorded before wind_01, one of
\* the records without a best time, and with a level selected before
C35_Witness ==
    /\ lastOp = "constructor"
    /\ nOps = MaxOps
    /\ Saved
    /\ Len(state.levelProgress) = 2
    /\ state.levelProgress[1].key = "wind_02"
    /\ \E i \in 1..2 : state.levelProgress[i].value.bestTimeMs = Null
    /\ getTotalDeaths > 0

============================================================================
